---------------------------- MODULE Spec2Model ----------------------------
(***************************************************************************)
(* A model of the bear virtual machine (bear-vm/src/vm.rs): the packed     *)
(* four-opcodes-per-word fetch/step loop, the two stacks, the encoded      *)
(* instruction pointer used by call/ret, and the DMA sync pass of run().   *)
(*                                                                         *)
(* A Cell (u32) is held as two 16-bit halves, [hi, lo], since the integers *)
(* of TLC are narrower than 32 unsigned bits.  usize values (indices,    *)
(* addresses) are plain integers; they stay below 2^31 in every state.     *)
(***************************************************************************)
EXTENDS Integers, Sequences, FiniteSets, TLC

(***************************************************************************)
(* Bounds of the model.                                                    *)
(***************************************************************************)
\* Largest number of words in an image.
MaxImage == 4
\* Largest depth of the data stack and of the address stack.
MaxStack == 3

(***************************************************************************)
(* Cell: cell.rs                                                           *)
(***************************************************************************)
SIZE == 4
W16 == 65536

\* The u32 with value n, for 0 <= n < 2^31.
U32(n) == [hi |-> n \div W16, lo |-> n % W16]
\* u32::MAX, also (-1).into()
u32_MAX == [hi |-> 65535, lo |-> 65535]
Zero == U32(0)

\* u32::to_le_bytes / u32::from_le_bytes; byte k of the word is element k+1.
to_le_bytes(c) == <<c.lo % 256, c.lo \div 256, c.hi % 256, c.hi \div 256>>
from_le_bytes(b) == [hi |-> b[3] + 256 * b[4], lo |-> b[1] + 256 * b[2]]

\* `cell.0 as usize` / 4 and % 4 (the value itself may exceed 2^31).
UDiv4(c) == c.hi * 16384 + c.lo \div 4
UMod4(c) == c.lo % 4

\* The bit that `op` ("and", "or", "xor") gives for bits x and y.
BitOp(op, x, y) ==
    CASE op = "and" -> IF x = 1 /\ y = 1 THEN 1 ELSE 0
      [] op = "or" -> IF x = 1 \/ y = 1 THEN 1 ELSE 0
      [] op = "xor" -> IF x # y THEN 1 ELSE 0

RECURSIVE Bits16(_, _, _, _)
\* Bitwise combination of the low n bits of a and b.
Bits16(op, a, b, n) ==
    IF n = 0 THEN 0
    ELSE BitOp(op, a % 2, b % 2) + 2 * Bits16(op, a \div 2, b \div 2, n - 1)

\* impl BitAnd / BitOr / BitXor / Not for Cell
BitAnd(a, b) == [hi |-> Bits16("and", a.hi, b.hi, 16), lo |-> Bits16("and", a.lo, b.lo, 16)]
BitOr(a, b) == [hi |-> Bits16("or", a.hi, b.hi, 16), lo |-> Bits16("or", a.lo, b.lo, 16)]
BitXor(a, b) == [hi |-> Bits16("xor", a.hi, b.hi, 16), lo |-> Bits16("xor", a.lo, b.lo, 16)]
BitNot(a) == [hi |-> 65535 - a.hi, lo |-> 65535 - a.lo]

\* A faulty order that reads the cells as i32; C11 does not hold of it.
CellLt_signed(a, b) ==
    LET sa == IF a.hi >= 32768 THEN a.hi - 65536 ELSE a.hi
        sb == IF b.hi >= 32768 THEN b.hi - 65536 ELSE b.hi
    IN  sa < sb \/ (sa = sb /\ a.lo < b.lo)

\* derive(PartialOrd) on Cell(u32): unsigned order.
CellLt(a, b) == a.hi < b.hi \/ (a.hi = b.hi /\ a.lo < b.lo)

\* wrapping_add, wrapping_sub
CellAdd(a, b) ==
    LET lo == a.lo + b.lo
    IN  [hi |-> (a.hi + b.hi + lo \div W16) % W16, lo |-> lo % W16]
CellSub(a, b) ==
    LET lo == a.lo - b.lo
        borrow == IF lo < 0 THEN 1 ELSE 0
    IN  [hi |-> (a.hi - b.hi - borrow) % W16, lo |-> lo % W16]

\* (x * y) mod 2^16 for 16-bit x, y, without leaving 31 bits.
MulLo16(x, y) == ((((x \div 256) * y) % 256) * 256 + (x % 256) * y) % W16
\* The full 32-bit product of 16-bit x and y.
MulFull16(x, y) ==
    LET p1 == (x \div 256) * y
        p0 == (x % 256) * y
        lo == (p1 % 256) * 256 + (p0 % W16)
    IN  [hi |-> (p1 \div 256 + p0 \div W16 + lo \div W16) % W16, lo |-> lo % W16]
\* wrapping_mul
CellMul(a, b) ==
    LET ll == MulFull16(a.lo, b.lo)
    IN  [hi |-> (ll.hi + MulLo16(a.hi, b.lo) + MulLo16(a.lo, b.hi)) % W16, lo |-> ll.lo]

\* Unsigned long division, one bit of the dividend at a time (i = 31 .. 0).
\* The running remainder r is held as [hi, lo] with hi allowed one extra bit.
BitOf(c, i) == IF i >= 16 THEN (c.hi \div (2 ^ (i - 16))) % 2 ELSE (c.lo \div (2 ^ i)) % 2
SetBit(c, i) == IF i >= 16 THEN [c EXCEPT !.hi = @ + 2 ^ (i - 16)] ELSE [c EXCEPT !.lo = @ + 2 ^ i]
RECURSIVE DivMod(_, _, _, _, _)
DivMod(n, d, i, q, r) ==
    IF i < 0 THEN [q |-> q, r |-> r]
    ELSE LET lo2 == 2 * r.lo + BitOf(n, i)
             r2 == [hi |-> 2 * r.hi + lo2 \div W16, lo |-> lo2 % W16]
         IN  IF CellLt(r2, d)
             THEN DivMod(n, d, i - 1, q, r2)
             ELSE DivMod(n, d, i - 1, SetBit(q, i),
                         LET lo == r2.lo - d.lo
                         IN  [hi |-> r2.hi - d.hi - (IF lo < 0 THEN 1 ELSE 0), lo |-> lo % W16])
\* wrapping_div and % on u32, for a nonzero divisor.
CellDiv(a, b) == DivMod(a, b, 31, Zero, Zero).q
CellRem(a, b) == DivMod(a, b, 31, Zero, Zero).r

(***************************************************************************)
(* OpCode and Error: vm.rs                                                 *)
(***************************************************************************)
\* #[repr(u8)] enum OpCode: declaration order from 0, Halt = 0b0111_1111.
OpCode ==
    [Nop |-> 0, Lit |-> 1, Dup |-> 2, Drop |-> 3, Swap |-> 4,
     MoveDataToAddr |-> 5, MoveAddrToData |-> 6,
     Not |-> 7, And |-> 8, Or |-> 9, Xor |-> 10,
     Equal |-> 11, LessThan |-> 12, GreaterThan |-> 13,
     Add |-> 14, Sub |-> 15, Mul |-> 16, Div |-> 17, Mod |-> 18, Shift |-> 19,
     Sext8 |-> 20, Sext16 |-> 21,
     Call |-> 22, Jump |-> 23, Return |-> 24,
     CallIfZ |-> 25, JumpIfZ |-> 26, ReturnIfZ |-> 27,
     Load |-> 28, Loads |-> 29, Store |-> 30, Stores |-> 31,
     Load8 |-> 32, Store8 |-> 33, Loads8 |-> 34, Stores8 |-> 35,
     Io |-> 36, Halt |-> 127]

\* A faulty test that forgets `byte != Halt`; C21 does not hold of it.
InvalidByte_rejecting_halt(byte) == OpCode.Io < byte

\* impl TryFrom<u8> for OpCode: TRUE when the byte is rejected.
InvalidByte(byte) == OpCode.Io < byte /\ byte # OpCode.Halt

\* Option<usize>: <<>> is None, <<v>> is Some(v).  An ip value is kept in the
\* two-halves form, since a jump target may put it above 2^31.
None == <<>>
Some(v) == <<v>>
IpValue(word_index, byte_index) ==
    [hi |-> word_index \div 16384, lo |-> (word_index % 16384) * SIZE + byte_index]

NoError == [kind |-> "none", message |-> "", ip |-> None]
Ok == [kind |-> "ok", message |-> "", ip |-> None]
data_underflow == [kind |-> "error", message |-> "Data stack underflow.", ip |-> None]
address_underflow == [kind |-> "error", message |-> "Address stack underflow.", ip |-> None]
ip_oob(ip) == [kind |-> "error", message |-> "IP went out of bounds.", ip |-> Some(ip)]
\* The message also spells the byte out; the model keeps its fixed part.
invalid_instruction(byte) == [kind |-> "error", message |-> "Invalid opcode", ip |-> None]
with_ip(e, ip) == [e EXCEPT !.ip = Some(ip)]
with_ip_from_state(e, m) ==
    [e EXCEPT !.ip = Some(IpValue(m.loaded_word_index, m.instruction_index))]
\* A Rust panic: the thread unwinds, run() never returns.
Panic(why) == [kind |-> "panic", message |-> why, ip |-> None]

(***************************************************************************)
(* The machine as a record m: the fields of ExecutionState and BearVM,     *)
(* plus err (the Err or panic that ended the step, NoError otherwise) and  *)
(* dumped (whether dump() was called).                                     *)
(***************************************************************************)
Raise(m, e) == [m EXCEPT !.err = e]
Failed(m) == m.err.kind # "none"
Top(stack) == stack[Len(stack)]
Pop(stack) == SubSeq(stack, 1, Len(stack) - 1)

\* BearVM::data_push, BearVM::address_push
data_push(m, cell) == [m EXCEPT !.data = Append(@, cell)]
address_push(m, cell) == [m EXCEPT !.address = Append(@, cell)]

\* BearVM::data_pop: the error carries no ip.  The popped value is Top(m.data).
vm_data_pop(m) ==
    IF m.data = <<>> THEN Raise(m, data_underflow) ELSE [m EXCEPT !.data = Pop(@)]
\* ExecutionState::data_pop: the same, with the ip of the state.
data_pop(m) ==
    IF m.data = <<>> THEN Raise(m, with_ip_from_state(data_underflow, m))
    ELSE [m EXCEPT !.data = Pop(@)]
\* ExecutionState::data_peek fails as data_pop does and changes nothing.
data_peek(m) ==
    IF m.data = <<>> THEN Raise(m, with_ip_from_state(data_underflow, m)) ELSE m
\* BearVM::address_pop
address_pop(m) ==
    IF m.address = <<>> THEN Raise(m, address_underflow) ELSE [m EXCEPT !.address = Pop(@)]

\* self.vm.image[index], Rust's 0-based index; the caller checks InImage first.
InImage(m, index) == 0 <= index /\ index < Len(m.image)
ImageAt(m, index) == m.image[index + 1]
IndexPanic == Panic("index out of bounds")

\* ExecutionState::ip
ip(m) == IpValue(m.current_word_index, m.instruction_index)

\* ExecutionState::ip_set
ip_set(m, lw, cw, ii) ==
    IF Len(m.image) < lw
    THEN Raise(m, ip_oob(IpValue(lw, ii)))
    ELSE LET set == [m EXCEPT !.loaded_word_index = lw,
                              !.current_word_index = cw,
                              !.instruction_index = ii]
         IN  IF InImage(m, lw)
             THEN [set EXCEPT !.word = to_le_bytes(ImageAt(m, lw))]
             ELSE Raise(set, IndexPanic)

\* A faulty packing that drops the literal cursor; C2 does not hold of it.
ip_get_encoded_without_cursor(m) ==
    [hi |-> m.loaded_word_index * 2, lo |-> m.instruction_index]

\* ExecutionState::ip_get_encoded: its three assertions, then the packing
\* (lw << 17) | (cw << 2) | ii, whose fields do not overlap.
EncodedAssertsHold(m) ==
    /\ m.instruction_index < 4
    /\ m.loaded_word_index < 32768
    /\ m.current_word_index < 32768
ip_get_encoded(m) ==
    [hi |-> m.loaded_word_index * 2 + m.current_word_index \div 16384,
     lo |-> (m.current_word_index % 16384) * 4 + m.instruction_index]

\* ExecutionState::ip_set_encoded: ii = ip & 3, lw = ip >> 17, cw = (ip >> 2) & 0x7FFF
ip_set_encoded(m, enc) ==
    ip_set(m, enc.hi \div 2, (enc.hi % 2) * 16384 + enc.lo \div 4, enc.lo % 4)

\* A faulty ip_inc that goes on from the loaded word, not from the literal
\* cursor: the literals of a word are decoded as opcodes.
ip_inc_from_loaded_word(m) ==
    IF m.instruction_index = SIZE - 1
    THEN LET next == [m EXCEPT !.current_word_index = m.loaded_word_index + 1,
                               !.loaded_word_index = @ + 1,
                               !.instruction_index = 0]
         IN  IF Len(m.image) < next.loaded_word_index
             THEN Raise(next, ip_oob(ip(next)))
             ELSE IF InImage(m, next.loaded_word_index)
                  THEN [next EXCEPT !.word = to_le_bytes(ImageAt(m, next.loaded_word_index))]
                  ELSE Raise(next, IndexPanic)
    ELSE [m EXCEPT !.instruction_index = @ + 1]

\* ExecutionState::ip_inc.  usize::MAX (left by a wrapped jump to address 0)
\* is held as -1, so that the wrapping += 1 gives 0.
ip_inc(m) ==
    IF m.instruction_index = SIZE - 1
    THEN LET next == [m EXCEPT !.current_word_index = @ + 1,
                               !.loaded_word_index = m.current_word_index + 1,
                               !.instruction_index = 0]
         IN  IF Len(m.image) < next.loaded_word_index
             THEN Raise(next, ip_oob(ip(next)))
             ELSE IF InImage(m, next.loaded_word_index)
                  THEN [next EXCEPT !.word = to_le_bytes(ImageAt(m, next.loaded_word_index))]
                  ELSE Raise(next, IndexPanic)
    ELSE [m EXCEPT !.instruction_index = @ + 1]

(***************************************************************************)
(* The instructions: vm.rs, impl ExecutionState.  Each takes the machine   *)
(* and gives the machine after it; a `?` that fails leaves what was done   *)
(* before it (values already popped stay popped).                          *)
(***************************************************************************)
\* A faulty lit that also moves the loaded word on; C3 does not hold of it.
inst_lit_moving_loaded_word(m) ==
    LET adv == [m EXCEPT !.current_word_index = @ + 1,
                         !.loaded_word_index = m.current_word_index + 1]
    IN  IF InImage(adv, adv.current_word_index)
        THEN data_push(adv, ImageAt(adv, adv.current_word_index))
        ELSE Raise(adv, IndexPanic)

\* inst_lit_next_word: the cursor is advanced before the word is read.
inst_lit_next_word(m) ==
    LET adv == [m EXCEPT !.current_word_index = @ + 1]
    IN  IF InImage(adv, adv.current_word_index)
        THEN data_push(adv, ImageAt(adv, adv.current_word_index))
        ELSE Raise(adv, IndexPanic)

\* A faulty extension that fills only bits 8..15; C13 does not hold of it.
SignExtend8_to_16_bits(v) == IF v.lo >= 128 THEN [hi |-> 0, lo |-> 65280 + v.lo] ELSE v

\* `value as u8 as i8 as i32 as u32` for value <= u8::MAX, and the u16 form.
SignExtend8(v) == IF v.lo >= 128 THEN [hi |-> 65535, lo |-> 65280 + v.lo] ELSE v
SignExtend16(v) == IF v.lo >= 32768 THEN [hi |-> 65535, lo |-> v.lo] ELSE v

\* A faulty sext.8 that widens by one width per execution, a byte to a half
\* word and a half word to a word; C14 does not hold of it.
inst_sext_8_one_width_per_step(m) ==
    LET p == data_pop(m)
        value == Top(m.data)
    IN  IF Failed(p) THEN p
        ELSE IF value.hi = 0 /\ value.lo <= 255
             THEN data_push(p, SignExtend8_to_16_bits(value))
             ELSE IF value.hi = 0 THEN data_push(p, SignExtend16(value))
             ELSE data_push(p, value)

inst_sext_8(m) ==
    LET p == data_pop(m)
        value == Top(m.data)
    IN  IF Failed(p) THEN p
        ELSE IF value.hi = 0 /\ value.lo <= 255
             THEN data_push(p, SignExtend8(value))
             ELSE data_push(p, value)

inst_sext_16(m) ==
    LET p == data_pop(m)
        value == Top(m.data)
    IN  IF Failed(p) THEN p
        ELSE IF value.hi = 0
             THEN data_push(p, SignExtend16(value))
             ELSE data_push(p, value)

\* A faulty halt that dumps whatever the stack holds; C7 does not hold of it.
inst_halt_always_dumping(m) == [m EXCEPT !.dumped = TRUE]

\* inst_halt: dump() is called when the top of the data stack is u32::MAX.
inst_halt(m) ==
    IF m.data # <<>> /\ Top(m.data) = u32_MAX THEN [m EXCEPT !.dumped = TRUE] ELSE m

inst_nop(m) == m

inst_dup(m) ==
    LET p == data_peek(m)
    IN  IF Failed(p) THEN p ELSE data_push(p, Top(m.data))

\* inst_drop pops through the BearVM, not through the ExecutionState.
inst_drop(m) == vm_data_pop(m)

inst_swap(m) ==
    LET p1 == data_pop(m)
        tos == Top(m.data)
        p2 == data_pop(p1)
        nos == Top(p1.data)
    IN  IF Failed(p1) THEN p1
        ELSE IF Failed(p2) THEN p2
        ELSE data_push(data_push(p2, tos), nos)

inst_move_data_to_address(m) ==
    LET p == data_pop(m)
    IN  IF Failed(p) THEN p ELSE address_push(p, Top(m.data))

inst_move_address_to_data(m) ==
    LET p == address_pop(m)
    IN  IF Failed(p) THEN p ELSE data_push(p, Top(m.address))

\* The value a two-operand instruction pushes for tos and nos; <<>> when it
\* panics (division by zero).
Bool(b) == IF b THEN u32_MAX ELSE Zero
\* A faulty table whose sub computes nos - tos; C12 does not hold of it.
BinaryValue_sub_reversed(op, tos, nos) ==
    CASE op = OpCode.Equal -> <<Bool(tos = nos)>>
      [] op = OpCode.LessThan -> <<Bool(CellLt(tos, nos))>>
      [] op = OpCode.GreaterThan -> <<Bool(CellLt(nos, tos))>>
      [] op = OpCode.Add -> <<CellAdd(tos, nos)>>
      [] op = OpCode.Sub -> <<CellSub(nos, tos)>>
      [] op = OpCode.Mul -> <<CellMul(tos, nos)>>

BinaryValue(op, tos, nos) ==
    CASE op = OpCode.Or -> <<BitOr(tos, nos)>>
      [] op = OpCode.And -> <<BitAnd(tos, nos)>>
      [] op = OpCode.Xor -> <<BitXor(tos, nos)>>
      [] op = OpCode.Equal -> <<Bool(tos = nos)>>
      [] op = OpCode.LessThan -> <<Bool(CellLt(tos, nos))>>
      [] op = OpCode.GreaterThan -> <<Bool(CellLt(nos, tos))>>
      [] op = OpCode.Add -> <<CellAdd(tos, nos)>>
      [] op = OpCode.Sub -> <<CellSub(tos, nos)>>
      [] op = OpCode.Mul -> <<CellMul(tos, nos)>>
      [] op = OpCode.Div -> IF nos = Zero THEN <<>> ELSE <<CellDiv(tos, nos)>>
      [] op = OpCode.Mod -> IF nos = Zero THEN <<>> ELSE <<CellRem(tos, nos)>>

\* inst_or, inst_and, inst_xor, inst_equal, inst_less_than, inst_greater_than,
\* inst_add, inst_sub, inst_mul, inst_div, inst_rem: pop tos, pop nos, push.
inst_binary(m, op) ==
    LET p1 == data_pop(m)
        tos == Top(m.data)
        p2 == data_pop(p1)
        nos == Top(p1.data)
        value == BinaryValue(op, tos, nos)
    IN  IF Failed(p1) THEN p1
        ELSE IF Failed(p2) THEN p2
        ELSE IF value = <<>> THEN Raise(p2, Panic("attempt to divide by zero"))
        ELSE data_push(p2, value[1])

inst_not(m) ==
    LET p == data_pop(m)
    IN  IF Failed(p) THEN p ELSE data_push(p, BitNot(Top(m.data)))

\* 2^a as a Cell, for 0 <= a <= 31.
Pow2Cell(a) == IF a >= 16 THEN [hi |-> 2 ^ (a - 16), lo |-> 0] ELSE [hi |-> 0, lo |-> 2 ^ a]
\* tos as i32: negative when bit 31 is set; |tos| is then 2^32 - tos.
IsNegative(c) == c.hi >= 32768
AbsI32(c) == IF IsNegative(c) THEN CellSub(Zero, c) ELSE c

\* inst_shift: nos >> |tos| when tos < 0, nos << |tos| otherwise.  |tos| of
\* i32::MIN and a shift by 32 or more overflow: a panic where the build checks
\* overflow, otherwise the amount is taken modulo 32.
inst_shift(m, overflow_checks) ==
    LET p1 == data_pop(m)
        tos == Top(m.data)
        p2 == data_pop(p1)
        nos == Top(p1.data)
        amount == AbsI32(tos)
        overflows == amount.hi # 0 \/ amount.lo >= 32
        by == amount.lo % 32
    IN  IF Failed(p1) THEN p1
        ELSE IF Failed(p2) THEN p2
        ELSE IF overflows /\ overflow_checks
             THEN Raise(p2, Panic("arithmetic overflow"))
             ELSE IF IsNegative(tos)
                  THEN data_push(p2, CellDiv(nos, Pow2Cell(by)))
                  ELSE data_push(p2, CellMul(nos, Pow2Cell(by)))

(***************************************************************************)
(* Control flow                                                            *)
(***************************************************************************)
\* The (w, i) that inst_jump and inst_call compute from the byte address:
\* if ip != 0 && ip % 4 == 0 { (ip / 4 - 1, 3) } else { (ip / 4, ip % 4 - 1) }.
\* For ip = 0 the usize subtraction 0 - 1 overflows: <<>> where the build
\* checks overflow (a panic), otherwise i wraps to usize::MAX, held as -1.
JumpIndices(target, overflow_checks) ==
    IF target # Zero /\ UMod4(target) = 0
    THEN <<[w |-> UDiv4(target) - 1, i |-> 3]>>
    ELSE IF UMod4(target) = 0 /\ overflow_checks
         THEN <<>>
         ELSE <<[w |-> UDiv4(target), i |-> UMod4(target) - 1]>>

\* The tail of inst_jump and inst_call: let (w, i) = ...; self.ip_set(w, w, i)?
Transfer(m, target, overflow_checks) ==
    LET wi == JumpIndices(target, overflow_checks)
    IN  IF wi = <<>> THEN Raise(m, Panic("arithmetic overflow"))
        ELSE ip_set(m, wi[1].w, wi[1].w, wi[1].i)

\* A faulty jump that leaves a nonzero predicate on the stack; C10 does not
\* hold of it.
inst_jump_keeping_predicate(m, ifz, overflow_checks) ==
    LET p1 == data_pop(m)
        target == Top(m.data)
        p2 == data_pop(p1)
        predicate == Top(p1.data)
    IN  IF Failed(p1) THEN p1
        ELSE IF ifz /\ Failed(p2) THEN p2
        ELSE IF ifz /\ predicate # Zero THEN p1
        ELSE Transfer(IF ifz THEN p2 ELSE p1, target, overflow_checks)

inst_jump(m, ifz, overflow_checks) ==
    LET p1 == data_pop(m)
        target == Top(m.data)
        p2 == data_pop(p1)
        predicate == Top(p1.data)
    IN  IF Failed(p1) THEN p1
        ELSE IF ifz /\ Failed(p2) THEN p2
        ELSE IF ifz /\ predicate # Zero THEN p2
        ELSE Transfer(IF ifz THEN p2 ELSE p1, target, overflow_checks)

inst_call(m, ifz, overflow_checks) ==
    LET p1 == data_pop(m)
        target == Top(m.data)
        p2 == data_pop(p1)
        predicate == Top(p1.data)
        popped == IF ifz THEN p2 ELSE p1
    IN  IF Failed(p1) THEN p1
        ELSE IF ifz /\ Failed(p2) THEN p2
        ELSE IF ifz /\ predicate # Zero THEN p2
        ELSE IF ~EncodedAssertsHold(popped) THEN Raise(popped, Panic("assertion failed"))
        ELSE Transfer(address_push(popped, ip_get_encoded(popped)), target, overflow_checks)

\* A faulty return that pops the predicate whatever it is; C9 does not hold
\* of it.
inst_return_popping_predicate(m, ifz) ==
    LET popped == IF ifz THEN data_pop(m) ELSE m
        a == address_pop(popped)
    IN  IF Failed(popped) THEN popped
        ELSE IF ifz /\ Top(m.data) # Zero THEN popped
        ELSE IF Failed(a) THEN a
        ELSE ip_set_encoded(a, Top(popped.address))

\* inst_return: ifz peeks the predicate and pops it only when it is zero.
inst_return(m, ifz) ==
    LET peeked == data_peek(m)
        popped == IF ifz THEN vm_data_pop(m) ELSE m
        a == address_pop(popped)
    IN  IF ifz /\ Failed(peeked) THEN peeked
        ELSE IF ifz /\ Top(m.data) # Zero THEN m
        ELSE IF Failed(a) THEN a
        ELSE ip_set_encoded(a, Top(popped.address))

(***************************************************************************)
(* Memory access                                                           *)
(***************************************************************************)
\* u32 << n and u32 >> n for 0 <= n <= 31 (bits shifted out are lost).
Shl(c, n) == CellMul(c, Pow2Cell(n))
Shr(c, n) == CellDiv(c, Pow2Cell(n))

\* A faulty assembly that shifts by whole bytes (8 * r, the rest of the second
\* word); C15 does not hold of it.
LoadMisaligned_by_bytes(first, second, r) ==
    BitOr(Shr(first, 8 * r), Shl(second, 32 - 8 * r))

\* The value inst_load reads at a byte address, r = address % 4 # 0:
\* shift = 2 * r; mask = 0xFFFFFFFF >> shift;
\* high = (image[a / 4] & mask) << shift; low = (image[a / 4 + 1] & !mask) >> (8 - shift)
LoadMisaligned(first, second, r) ==
    LET shift == 2 * r
        mask == Shr(u32_MAX, shift)
        high == Shl(BitAnd(first, mask), shift)
        low == Shr(BitAnd(second, BitNot(mask)), 8 - shift)
    IN  BitOr(high, low)

\* `stream` pushes address + 4 (as u32) after the value.
inst_load(m, stream) ==
    LET p == data_pop(m)
        address == Top(m.data)
        w == UDiv4(address)
        r == UMod4(address)
        value == IF r = 0 THEN ImageAt(p, w)
                 ELSE LoadMisaligned(ImageAt(p, w), ImageAt(p, w + 1), r)
        pushed == data_push(p, value)
    IN  IF Failed(p) THEN p
        ELSE IF ~InImage(p, w) \/ (r # 0 /\ ~InImage(p, w + 1)) THEN Raise(p, IndexPanic)
        ELSE IF stream THEN data_push(pushed, CellAdd(address, U32(4)))
        ELSE pushed

inst_load_8(m, stream) ==
    LET p == data_pop(m)
        address == Top(m.data)
        w == UDiv4(address)
        byte == to_le_bytes(ImageAt(p, w))[UMod4(address) + 1]
        pushed == data_push(p, U32(byte))
    IN  IF Failed(p) THEN p
        ELSE IF ~InImage(p, w) THEN Raise(p, IndexPanic)
        ELSE IF stream THEN data_push(pushed, CellAdd(address, U32(1)))
        ELSE pushed

\* A faulty store that pushes address + 4 whatever `stream` is; C18 does not
\* hold of it.
inst_store_always_streaming(m, stream) ==
    LET p1 == data_pop(m)
        value == Top(m.data)
        p2 == data_pop(p1)
        address == Top(p1.data)
        w == UDiv4(address)
        r == UMod4(address)
        mask == Shr(u32_MAX, 2 * r)
        aligned == [p2 EXCEPT !.image[w + 1] = value]
        first == [p2 EXCEPT !.image[w + 1] = BitOr(BitAnd(@, mask), BitAnd(value, BitNot(mask)))]
        both == [first EXCEPT !.image[w + 2] = BitOr(BitAnd(@, mask), BitAnd(value, mask))]
    IN  IF Failed(p1) THEN p1
        ELSE IF Failed(p2) THEN p2
        ELSE IF ~InImage(p2, w) THEN Raise(p2, IndexPanic)
        ELSE IF r # 0 /\ ~InImage(p2, w + 1) THEN Raise(first, IndexPanic)
        ELSE data_push(IF r = 0 THEN aligned ELSE both, CellAdd(address, U32(4)))

\* inst_store, r = address % 4 # 0: low = value & !mask; high = value & mask;
\* image[a / 4] = (image[a / 4] & mask) | low; image[a / 4 + 1] = (image[a / 4 + 1] & mask) | high.
\* The first word is written before the second is indexed.
inst_store(m, stream) ==
    LET p1 == data_pop(m)
        value == Top(m.data)
        p2 == data_pop(p1)
        address == Top(p1.data)
        w == UDiv4(address)
        r == UMod4(address)
        mask == Shr(u32_MAX, 2 * r)
        low == BitAnd(value, BitNot(mask))
        high == BitAnd(value, mask)
        aligned == [p2 EXCEPT !.image[w + 1] = value]
        first == [p2 EXCEPT !.image[w + 1] = BitOr(BitAnd(@, mask), low)]
        both == [first EXCEPT !.image[w + 2] = BitOr(BitAnd(@, mask), high)]
        stored == IF r = 0 THEN aligned ELSE both
    IN  IF Failed(p1) THEN p1
        ELSE IF Failed(p2) THEN p2
        ELSE IF ~InImage(p2, w) THEN Raise(p2, IndexPanic)
        ELSE IF r # 0 /\ ~InImage(p2, w + 1) THEN Raise(first, IndexPanic)
        ELSE IF stream THEN data_push(stored, CellAdd(address, U32(4)))
        ELSE stored

\* inst_store_8: mask = 0xFF << (a % 4) * 8; value = value << (a % 4) * 8;
\* image[a / 4] = (word & !mask) | value.
inst_store_8(m, stream) ==
    LET p1 == data_pop(m)
        value == Top(m.data)
        p2 == data_pop(p1)
        address == Top(p1.data)
        w == UDiv4(address)
        by == UMod4(address) * 8
        mask == Shl(U32(255), by)
        stored == [p2 EXCEPT !.image[w + 1] = BitOr(BitAnd(@, BitNot(mask)), Shl(value, by))]
    IN  IF Failed(p1) THEN p1
        ELSE IF Failed(p2) THEN p2
        ELSE IF ~InImage(p2, w) THEN Raise(p2, IndexPanic)
        ELSE IF stream THEN data_push(stored, CellAdd(address, U32(1)))
        ELSE stored

(***************************************************************************)
(* Devices: device.rs (the Device trait, GenericDeviceCommand) and         *)
(* bear-app/src/devices.rs (StdinDevice, StdoutDevice).  A device is a     *)
(* record: kind, state, the bytes left on its input handle, the bytes      *)
(* written to its output handle, and the DMA requests dma_poll will yield. *)
(* The two stream devices never have a DMA request; kind "dma" is a device *)
(* that only issues the requests it was built with.                        *)
(***************************************************************************)
\* enum GenericDeviceState
ReadyForCommand == [tag |-> "ReadyForCommand", code |-> 0]
Busy == [tag |-> "Busy", code |-> 0]
Error(code) == [tag |-> "Error", code |-> code]

\* A faulty decode without the test for the word 0: a Reset is malformed.
decode_without_reset(value) ==
    LET command == value.hi \div 256
        index == value.hi % 256
    IN  IF command = 1
        THEN IF value.lo # 0 THEN [tag |-> "None", a |-> 0, b |-> 0]
             ELSE [tag |-> "GetRegister", a |-> index, b |-> 0]
        ELSE IF command = 2 THEN [tag |-> "SetRegister", a |-> index, b |-> value.lo]
        ELSE IF command = 3 THEN [tag |-> "Execute", a |-> value.lo \div 256, b |-> value.lo % 256]
        ELSE [tag |-> "None", a |-> 0, b |-> 0]

\* A faulty decode that accepts a Get whatever its low 16 bits are; C29 does
\* not hold of it.
decode_lenient_get(value) ==
    LET command == value.hi \div 256
        index == value.hi % 256
    IN  IF command = 1 THEN [tag |-> "GetRegister", a |-> index, b |-> 0]
        ELSE IF command = 2 THEN [tag |-> "SetRegister", a |-> index, b |-> value.lo]
        ELSE IF command = 3 THEN [tag |-> "Execute", a |-> value.lo \div 256, b |-> value.lo % 256]
        ELSE IF value = Zero THEN [tag |-> "Reset", a |-> 0, b |-> 0]
        ELSE [tag |-> "None", a |-> 0, b |-> 0]

\* GenericDeviceCommand::decode; tag "None" when the word is malformed.
decode(value) ==
    LET command == value.hi \div 256
        index == value.hi % 256
    IN  IF command = 1
        THEN IF value.lo # 0 THEN [tag |-> "None", a |-> 0, b |-> 0]
             ELSE [tag |-> "GetRegister", a |-> index, b |-> 0]
        ELSE IF command = 2 THEN [tag |-> "SetRegister", a |-> index, b |-> value.lo]
        ELSE IF command = 3 THEN [tag |-> "Execute", a |-> value.lo \div 256, b |-> value.lo % 256]
        ELSE IF value = Zero THEN [tag |-> "Reset", a |-> 0, b |-> 0]
        ELSE [tag |-> "None", a |-> 0, b |-> 0]

\* enum GenericDeviceCommand, as decode returns it
Reset == [tag |-> "Reset", a |-> 0, b |-> 0]
GetRegister(index) == [tag |-> "GetRegister", a |-> index, b |-> 0]
SetRegister(index, value) == [tag |-> "SetRegister", a |-> index, b |-> value]
ExecuteCommand(command, argument) == [tag |-> "Execute", a |-> command, b |-> argument]

\* GenericDeviceCommand::encode.  The fields are a u8 or a u16 each and land
\* in disjoint bits, so `|` adds them.
encode(c) ==
    CASE c.tag = "Reset" -> Zero
      [] c.tag = "GetRegister" -> [hi |-> 256 + c.a, lo |-> 0]
      [] c.tag = "SetRegister" -> [hi |-> 512 + c.a, lo |-> c.b]
      [] c.tag = "Execute" -> [hi |-> 768, lo |-> 256 * c.a + c.b]

\* enum StreamCommand
StreamCommand == [Read |-> 0, Write |-> 1, Seek |-> 2]

\* A faulty ioctl that lets Reset through in every state; C30 does not hold
\* of it.
ioctl_resetting_in_any_state(device, message) ==
    LET command == decode(message)
        rejected == [device |-> device, result |-> u32_MAX]
    IN  IF device.kind = "dma" THEN rejected
        ELSE IF command.tag = "Reset"
             THEN [device |-> [device EXCEPT !.state = ReadyForCommand], result |-> Zero]
        ELSE IF device.state # ReadyForCommand \/ command.tag # "Execute" THEN rejected
        ELSE IF device.kind = "stdin" /\ command.a = StreamCommand.Read /\ device.input # <<>>
             THEN [device |-> [device EXCEPT !.input = Tail(@)], result |-> U32(Head(device.input))]
        ELSE IF device.kind = "stdout" /\ command.a = StreamCommand.Write
             THEN [device |-> [device EXCEPT !.output = Append(@, command.b)], result |-> Zero]
        ELSE rejected

\* A faulty ioctl whose Read returns the next byte without taking it from the
\* handle.
ioctl_peeking_input(device, message) ==
    LET command == decode(message)
        rejected == [device |-> device, result |-> u32_MAX]
    IN  IF device.kind = "dma" \/ device.state # ReadyForCommand THEN rejected
        ELSE IF command.tag = "Reset"
             THEN [device |-> [device EXCEPT !.state = ReadyForCommand], result |-> Zero]
        ELSE IF command.tag # "Execute" THEN rejected
        ELSE IF device.kind = "stdin" /\ command.a = StreamCommand.Read /\ device.input # <<>>
             THEN [device |-> device, result |-> U32(Head(device.input))]
        ELSE IF device.kind = "stdout" /\ command.a = StreamCommand.Write
             THEN [device |-> [device EXCEPT !.output = Append(@, command.b)], result |-> Zero]
        ELSE rejected

\* Device::ioctl of a device: the device after the call and the value returned.
\* Both stream devices have no registers, so Get and Set answer u32::MAX.
ioctl(device, message) ==
    LET command == decode(message)
        rejected == [device |-> device, result |-> u32_MAX]
    IN  IF device.kind = "dma" \/ device.state # ReadyForCommand THEN rejected
        ELSE IF command.tag = "Reset"
             THEN [device |-> [device EXCEPT !.state = ReadyForCommand], result |-> Zero]
        ELSE IF command.tag # "Execute" THEN rejected
        ELSE IF device.kind = "stdin" /\ command.a = StreamCommand.Read /\ device.input # <<>>
             THEN [device |-> [device EXCEPT !.input = Tail(@)], result |-> U32(Head(device.input))]
        ELSE IF device.kind = "stdout" /\ command.a = StreamCommand.Write
             THEN [device |-> [device EXCEPT !.output = Append(@, command.b)], result |-> Zero]
        ELSE rejected

\* A faulty io that sends the command to the device twice and pushes the
\* second answer; C20 does not hold of it.
inst_io_calling_twice(m) ==
    LET p1 == data_pop(m)
        command == Top(m.data)
        p2 == data_pop(p1)
        device_id == Top(p1.data)
        id == device_id.lo
        once == ioctl(p2.devices[id + 1], command)
        done == ioctl(once.device, command)
    IN  IF Failed(p1) THEN p1
        ELSE IF Failed(p2) THEN p2
        ELSE IF device_id.hi # 0 \/ id >= Len(p2.devices) THEN Raise(p2, IndexPanic)
        ELSE data_push(data_push([p2 EXCEPT !.devices[id + 1] = done.device], device_id),
                       done.result)

\* inst_io: pop the command, pop the device id, index the device list, ioctl,
\* push the id and the result.
inst_io(m) ==
    LET p1 == data_pop(m)
        command == Top(m.data)
        p2 == data_pop(p1)
        device_id == Top(p1.data)
        id == device_id.lo
        done == ioctl(p2.devices[id + 1], command)
    IN  IF Failed(p1) THEN p1
        ELSE IF Failed(p2) THEN p2
        ELSE IF device_id.hi # 0 \/ id >= Len(p2.devices) THEN Raise(p2, IndexPanic)
        ELSE data_push(data_push([p2 EXCEPT !.devices[id + 1] = done.device], device_id),
                       done.result)

\* enum DMARequest
DMARead(address) == [op |-> "Read", address |-> address, value |-> Zero]
DMAWrite(address, value) == [op |-> "Write", address |-> address, value |-> value]

RECURSIVE SyncFrom(_, _)
\* ExecutionState::sync from device i (1-based) on: poll the device until it
\* yields None, then go to the next.  dma_log lists the calls made to
\* dma_read_response (with the word read) and dma_write_response.
SyncFrom(m, i) ==
    IF Failed(m) \/ i > Len(m.devices) THEN m
    ELSE IF m.devices[i].pending = <<>> THEN SyncFrom(m, i + 1)
    ELSE LET request == Head(m.devices[i].pending)
             polled == [m EXCEPT !.devices[i].pending = Tail(@)]
             w == request.address \div 4
             read == [device |-> i, op |-> "Read", address |-> request.address,
                      value |-> ImageAt(m, w)]
             written == [device |-> i, op |-> "Write", address |-> request.address,
                         value |-> request.value]
         IN  IF request.address % 4 # 0 THEN Raise(polled, Panic("assertion failed"))
             ELSE IF ~InImage(m, w) THEN Raise(polled, IndexPanic)
             ELSE IF request.op = "Read"
                  THEN SyncFrom([polled EXCEPT !.dma_log = Append(@, read)], i)
                  ELSE SyncFrom([polled EXCEPT !.image[w + 1] = request.value,
                                               !.dma_log = Append(@, written)], i)

\* A faulty pass that leaves out the first device; C8 does not hold of it.
sync_from_second_device(m) == SyncFrom([m EXCEPT !.dma_log = <<>>], 2)

sync(m) == SyncFrom([m EXCEPT !.dma_log = <<>>], 1)

(***************************************************************************)
(* ExecutionState::step                                                    *)
(***************************************************************************)
\* self.instruction(): the byte at instruction_index of the cached word.
instruction(m) == m.word[m.instruction_index + 1]

\* The match of step() on every opcode but Halt.
Execute(m, op, overflow_checks) ==
    CASE op = OpCode.Nop -> inst_nop(m)
      [] op \in {OpCode.Or, OpCode.And, OpCode.Xor, OpCode.Equal, OpCode.LessThan,
                 OpCode.GreaterThan, OpCode.Add, OpCode.Sub, OpCode.Mul, OpCode.Div,
                 OpCode.Mod} -> inst_binary(m, op)
      [] op = OpCode.Not -> inst_not(m)
      [] op = OpCode.Shift -> inst_shift(m, overflow_checks)
      [] op = OpCode.Dup -> inst_dup(m)
      [] op = OpCode.Drop -> inst_drop(m)
      [] op = OpCode.Swap -> inst_swap(m)
      [] op = OpCode.MoveDataToAddr -> inst_move_data_to_address(m)
      [] op = OpCode.MoveAddrToData -> inst_move_address_to_data(m)
      [] op = OpCode.Call -> inst_call(m, FALSE, overflow_checks)
      [] op = OpCode.Jump -> inst_jump(m, FALSE, overflow_checks)
      [] op = OpCode.Return -> inst_return(m, FALSE)
      [] op = OpCode.CallIfZ -> inst_call(m, TRUE, overflow_checks)
      [] op = OpCode.JumpIfZ -> inst_jump(m, TRUE, overflow_checks)
      [] op = OpCode.ReturnIfZ -> inst_return(m, TRUE)
      [] op = OpCode.Load -> inst_load(m, FALSE)
      [] op = OpCode.Store -> inst_store(m, FALSE)
      [] op = OpCode.Load8 -> inst_load_8(m, FALSE)
      [] op = OpCode.Store8 -> inst_store_8(m, FALSE)
      [] op = OpCode.Loads -> inst_load(m, TRUE)
      [] op = OpCode.Stores -> inst_store(m, TRUE)
      [] op = OpCode.Loads8 -> inst_load_8(m, TRUE)
      [] op = OpCode.Stores8 -> inst_store_8(m, TRUE)
      [] op = OpCode.Io -> inst_io(m)
      [] op = OpCode.Lit -> inst_lit_next_word(m)
      [] op = OpCode.Sext8 -> inst_sext_8(m)
      [] op = OpCode.Sext16 -> inst_sext_16(m)

\* step(): decode, execute, and (unless the opcode is Halt or failed) ip_inc.
\* Advance is the `?` on the executed instruction followed by self.ip_inc()?.
Advance(executed) == IF Failed(executed) THEN executed ELSE ip_inc(executed)
step(m, overflow_checks) ==
    LET byte == instruction(m)
    IN  IF InvalidByte(byte) THEN Raise(m, with_ip(invalid_instruction(byte), ip(m)))
        ELSE IF byte = OpCode.Halt THEN [inst_halt(m) EXCEPT !.running = FALSE]
        ELSE Advance(Execute(m, byte, overflow_checks))

(***************************************************************************)
(* State                                                                   *)
(***************************************************************************)
VARIABLES
    image,                \* BearVM::image
    data,                 \* BearVM::data, top last
    address,              \* BearVM::address, top last
    devices,              \* BearVM::devices, in registration order
    instruction_index,    \* ExecutionState
    loaded_word_index,
    current_word_index,
    word,
    running,
    dumped,               \* dump() has been called
    dma_log,              \* the DMA responses of the latest sync pass
    result,               \* what run() returned (Ok, Err, or a panic); NoError while it runs
    pc,                   \* where run() is: "init", "step", "sync", "done"
    before,               \* <<[machine, frames]>> as they were before the step() that
                          \* has just run; <<>> when the latest action was not a step
    frames                \* for each cell of the address stack: <<[lw, cw, ii]>>, the
                          \* indices at the call that pushed it, or <<>> if `push` did

machine_vars == <<image, data, address, devices, instruction_index, loaded_word_index,
                  current_word_index, word, running, dumped, dma_log, result, pc, before, frames>>

\* A stream device driven on its own, outside a machine.
VARIABLES
    device,               \* the StdinDevice or StdoutDevice
    sent,                 \* <<c>>: the GenericDeviceCommand the latest word was encoded from
    message,              \* <<w>>: the word passed to the latest ioctl
    answer,               \* <<r>>: what that ioctl returned
    device_before,        \* <<d>>: the device as that ioctl found it
    handle,               \* the bytes the handle of a StdinDevice held when it was made
    reads                 \* the answers to the Exec-Read commands sent so far

device_vars == <<device, sent, message, answer, device_before, handle, reads>>

\* The bytes of an image on their way between the assembler, a file and the
\* machine.
VARIABLES
    v8,                   \* the byte vector (the image file)
    v32,                  \* <<words>>: what convert_slice8_to_vec32 made of v8
    unpacked,             \* <<bytes>>: what convert_slice32_to_vec8 made of the words
    assembled,            \* <<op>>: the OpCode variant the latest byte was encoded from
    byte,                 \* <<b>>: the byte given to OpCode::try_from
    decoded               \* <<r>>: what try_from returned

codec_vars == <<v8, v32, unpacked, assembled, byte, decoded>>

\* The assembler at work on a program.
VARIABLES
    program,              \* the lines of ast::Program that pass 1 has not reached yet
    position,             \* Processor::position
    marks,                \* Processor::marks
    labels,               \* Processor::labels, a set of [name, address]
    definitions,          \* Processor::definitions, a set of [name, list]
    lines,                \* the ProcessedLines of pass 1
    processed,            \* Processor::processed, the lines pass 2 has fixed up
    errors,               \* the ErrorTags collected
    bits,                 \* <<bytes>>: the image Assembler::assemble returned
    phase,                \* "pass1", "pass2", "processed", "failed", "assembled" or "panic"
    line_before,          \* <<[line, position, labels, result]>>: the line pass 1 has
                          \* just processed, the position and labels it started from
                          \* and what process_line returned
    original,             \* Processor::original
    returned              \* <<tags>>: the Error that Processor::process returned

assembler_vars == <<program, position, marks, labels, definitions, lines, processed,
                    errors, bits, phase, line_before, original, returned>>

vars == <<machine_vars, device_vars, codec_vars, assembler_vars>>

\* No image bytes are being converted.
NoCodec ==
    /\ v8 = <<>>
    /\ v32 = <<>>
    /\ unpacked = <<>>
    /\ assembled = <<>>
    /\ byte = <<>>
    /\ decoded = <<>>

\* No program is being assembled.
NoAssembler ==
    /\ program = <<>>
    /\ position = 0
    /\ marks = <<>>
    /\ labels = {}
    /\ definitions = {}
    /\ lines = <<>>
    /\ processed = <<>>
    /\ errors = <<>>
    /\ bits = <<>>
    /\ phase = "off"
    /\ line_before = <<>>
    /\ original = <<>>
    /\ returned = <<>>

\* No device is driven on its own: the runs of the machine.
NoDevice ==
    /\ device = <<>>
    /\ sent = <<>>
    /\ message = <<>>
    /\ answer = <<>>
    /\ device_before = <<>>
    /\ reads = <<>>
    /\ handle = <<>>

Machine ==
    [image |-> image, data |-> data, address |-> address, devices |-> devices,
     instruction_index |-> instruction_index, loaded_word_index |-> loaded_word_index,
     current_word_index |-> current_word_index, word |-> word, running |-> running,
     dumped |-> dumped, dma_log |-> dma_log, err |-> NoError]

SetMachine(m) ==
    /\ image' = m.image
    /\ data' = m.data
    /\ address' = m.address
    /\ devices' = m.devices
    /\ instruction_index' = m.instruction_index
    /\ loaded_word_index' = m.loaded_word_index
    /\ current_word_index' = m.current_word_index
    /\ word' = m.word
    /\ running' = m.running
    /\ dumped' = m.dumped
    /\ dma_log' = m.dma_log

(***************************************************************************)
(* Inputs: the images and the device lists a run starts from.  An image is *)
(* a head (an instruction word and the literal words its `lit`s read)      *)
(* followed by tail words, the places control can reach next.              *)
(***************************************************************************)
Word(b0, b1, b2, b3) == from_le_bytes(<<b0, b1, b2, b3>>)
HaltWord == Word(OpCode.Halt, OpCode.Halt, OpCode.Halt, OpCode.Halt)

\* Byte addresses used as jump and call targets in an image of n words: every
\* byte of the image, the word past it and the first bytes of the word after.
Targets(n) == {U32(a) : a \in 0 .. (SIZE * (n + 1) + 1)}
Predicates == {Zero, U32(1)}

\* Heads with no literal.
Heads0 ==
    {<<Word(OpCode.Halt, OpCode.Nop, OpCode.Nop, OpCode.Nop)>>,
     <<Word(OpCode.Nop, OpCode.Nop, OpCode.Nop, OpCode.Nop)>>,
     <<Word(OpCode.Drop, OpCode.Halt, OpCode.Nop, OpCode.Nop)>>,
     <<Word(OpCode.MoveAddrToData, OpCode.Halt, OpCode.Nop, OpCode.Nop)>>,
     <<Word(OpCode.Return, OpCode.Halt, OpCode.Nop, OpCode.Nop)>>,
     <<Word(OpCode.ReturnIfZ, OpCode.Halt, OpCode.Nop, OpCode.Nop)>>,
     <<Word(OpCode.Nop, 200, OpCode.Nop, OpCode.Nop)>>}
\* Heads with one literal.
Heads1(n) ==
    {<<Word(OpCode.Lit, op, OpCode.Halt, OpCode.Nop), t>> :
        op \in {OpCode.Jump, OpCode.Call}, t \in Targets(n)}
    \cup {<<Word(OpCode.Nop, OpCode.Nop, OpCode.Lit, OpCode.Call), t>> : t \in Targets(n)}
    \cup {<<Word(OpCode.Lit, op, OpCode.Return, OpCode.Halt), v>> :
            op \in {OpCode.MoveDataToAddr, OpCode.ReturnIfZ, OpCode.Halt, OpCode.Not},
            v \in {Zero, U32(13), u32_MAX}}
    \cup {<<Word(OpCode.Nop, OpCode.Nop, OpCode.Nop, OpCode.Lit), v>> : v \in {Zero, U32(13)}}
\* Heads with two literals: the predicate, then the target.
Heads2(n) ==
    {<<Word(OpCode.Lit, OpCode.Lit, op, OpCode.Halt), p, t>> :
        op \in {OpCode.JumpIfZ, OpCode.CallIfZ, OpCode.Call}, p \in Predicates, t \in Targets(n)}
    \cup {<<Word(OpCode.Lit, OpCode.Lit, OpCode.MoveDataToAddr, OpCode.ReturnIfZ), p, v>> :
            p \in Predicates, v \in {Zero, U32(13), u32_MAX}}
Heads(n) == Heads0 \cup Heads1(n) \cup Heads2(n)

\* Tail words.
TailPool ==
    {HaltWord,
     Word(OpCode.Return, OpCode.Halt, OpCode.Nop, OpCode.Nop),
     Word(OpCode.ReturnIfZ, OpCode.Halt, OpCode.Nop, OpCode.Nop),
     Word(OpCode.Nop, OpCode.Nop, OpCode.Lit, OpCode.Return),
     u32_MAX}

ImagesOfLen(n) ==
    UNION {{h \o t : t \in [1 .. (n - Len(h)) -> TailPool]} : h \in {x \in Heads(n) : Len(x) <= n}}
Images == UNION {ImagesOfLen(n) : n \in 1 .. MaxImage}

StdinDevice(bytes) ==
    [kind |-> "stdin", state |-> ReadyForCommand, input |-> bytes, output |-> <<>>,
     pending |-> <<>>]
StdoutDevice ==
    [kind |-> "stdout", state |-> ReadyForCommand, input |-> <<>>, output |-> <<>>,
     pending |-> <<>>]
DmaDevice(requests) ==
    [kind |-> "dma", state |-> ReadyForCommand, input |-> <<>>, output |-> <<>>,
     pending |-> requests]

\* The device lists: the one bear-app's main() registers, and two devices with
\* DMA requests for word 0 pending.
DeviceLists ==
    {<<StdinDevice(<<65>>), StdoutDevice>>,
     <<DmaDevice(<<DMAWrite(0, HaltWord), DMARead(0)>>), DmaDevice(<<DMARead(0)>>)>>}

(***************************************************************************)
(* Init: BearVM::new(image), with_device for each device, start().         *)
(***************************************************************************)
Init ==
    /\ image \in Images
    /\ devices \in DeviceLists
    /\ data = <<>>
    /\ address = <<>>
    /\ instruction_index = 0
    /\ loaded_word_index = 0
    /\ current_word_index = 0
    /\ word = to_le_bytes(image[1])
    /\ running = TRUE
    /\ dumped = FALSE
    /\ dma_log = <<>>
    /\ result = NoError
    /\ pc = "init"
    /\ before = <<>>
    /\ frames = <<>>
    /\ NoDevice /\ NoCodec /\ NoAssembler

(***************************************************************************)
(* Actions: run() is its prologue (Run), then Step and Sync in turn.       *)
(***************************************************************************)
\* run(), up to the loop: the indices are reset and word 0 is loaded.
Run ==
    /\ pc = "init"
    /\ instruction_index' = 0
    /\ loaded_word_index' = 0
    /\ current_word_index' = 0
    /\ word' = to_le_bytes(image[1])
    /\ running' = TRUE
    /\ pc' = "step"
    /\ UNCHANGED <<image, data, address, devices, dumped, dma_log, result, before, frames>>
    /\ UNCHANGED <<device_vars, codec_vars, assembler_vars>>

\* The frames of the address stack after a step that ran opcode `op` from m0.
FramesAfter(m0, m1, op) ==
    IF Len(m1.address) > Len(m0.address)
    THEN Append(frames, IF op \in {OpCode.Call, OpCode.CallIfZ}
                        THEN <<[lw |-> m0.loaded_word_index, cw |-> m0.current_word_index,
                                ii |-> m0.instruction_index]>>
                        ELSE <<>>)
    ELSE IF Len(m1.address) < Len(m0.address) THEN Pop(frames)
    ELSE frames

\* self.step()? in the loop of run(): an Err or a panic ends run(); a cleared
\* running flag breaks the loop and run() returns Ok; otherwise sync() is next.
Step ==
    /\ pc = "step"
    /\ \E overflow_checks \in BOOLEAN :
         \E m \in {step(Machine, overflow_checks)} :
             /\ Len(m.data) <= MaxStack
             /\ Len(m.address) <= MaxStack
             /\ SetMachine(m)
             /\ result' = IF Failed(m) THEN m.err ELSE IF m.running THEN NoError ELSE Ok
             /\ pc' = IF Failed(m) \/ ~m.running THEN "done" ELSE "sync"
             /\ before' = <<[machine |-> Machine, frames |-> frames]>>
             /\ frames' = FramesAfter(Machine, m, instruction(Machine))
    /\ UNCHANGED <<device_vars, codec_vars, assembler_vars>>

\* self.sync() in the loop of run().
Sync ==
    /\ pc = "sync"
    /\ \E m \in {sync(Machine)} :
           /\ SetMachine(m)
           /\ result' = m.err
           /\ pc' = IF Failed(m) THEN "done" ELSE "step"
    /\ before' = <<>>
    /\ UNCHANGED frames
    /\ UNCHANGED <<device_vars, codec_vars, assembler_vars>>

Next == Run \/ Step \/ Sync

Spec == Init /\ [][Next]_vars

(***************************************************************************)
(* Properties.  They are stated on the state a step() leaves, against the  *)
(* snapshot `before` of the machine the step started from.                 *)
(***************************************************************************)
Stepped == before # <<>>
Prev == before[1].machine
PrevFrames == before[1].frames
PrevOp == instruction(Prev)
\* The machine is at byte `byte_index` of word `word_index`, that word cached.
FetchesFrom(word_index, byte_index) ==
    /\ loaded_word_index = word_index
    /\ instruction_index = byte_index
    /\ InImage(Machine, word_index)
    /\ word = to_le_bytes(image[word_index + 1])
\* The step popped two operands, the predicate under the top.
PrevPredicate == Prev.data[Len(Prev.data) - 1]
\* The step was a jump or a call that transfers: a plain one with its target
\* on the stack, or an ifz one with a zero predicate under the target.
PrevTransfers ==
    \/ PrevOp \in {OpCode.Jump, OpCode.Call} /\ Len(Prev.data) >= 1
    \/ PrevOp \in {OpCode.JumpIfZ, OpCode.CallIfZ} /\ Len(Prev.data) >= 2 /\ PrevPredicate = Zero
\* The step was a return that is taken and pops an address.
PrevReturns ==
    /\ Prev.address # <<>>
    /\ \/ PrevOp = OpCode.Return
       \/ PrevOp = OpCode.ReturnIfZ /\ Prev.data # <<>> /\ Top(Prev.data) = Zero
\* The indices are those of the opcode that follows the one at (cw, ii):
\* the next byte of the loaded word, or byte 0 of the word after the cursor.
AtOpcodeAfter(lw, cw, ii) ==
    IF ii < SIZE - 1
    THEN loaded_word_index = lw /\ current_word_index = cw /\ instruction_index = ii + 1
    ELSE loaded_word_index = cw + 1 /\ current_word_index = cw + 1 /\ instruction_index = 0

\* C1: a jump or call (or a taken ifz:jump / ifz:call) whose popped target A is
\* a byte address inside the image, A = 0 included, ends with the machine at
\* byte A mod 4 of word A / 4, so that the next opcode fetched is the byte at A.
C1_JumpLandsOnTarget ==
    (Stepped /\ PrevTransfers /\ InImage(Prev, UDiv4(Top(Prev.data))))
    => /\ result.kind = "none"
       /\ FetchesFrom(UDiv4(Top(Prev.data)), UMod4(Top(Prev.data)))

\* C2: a ret that pops the address a call pushed when the indices were
\* (L, C, I) leaves the machine at the opcode after that call with the
\* literal cursor restored: (L, C, I + 1) with word L cached when I < 3,
\* byte 0 of word C + 1 when I = 3.
C2_ReturnRestoresCaller ==
    (Stepped /\ PrevReturns /\ Top(PrevFrames) # <<>>)
    => /\ AtOpcodeAfter(Top(PrevFrames)[1].lw, Top(PrevFrames)[1].cw, Top(PrevFrames)[1].ii)
       /\ address = Pop(Prev.address)
       /\ InImage(Machine, loaded_word_index)
          => result.kind = "none" /\ word = to_le_bytes(image[loaded_word_index + 1])
\* C2 happens: a ret has resumed a caller in the middle of its word, whose
\* literal cursor was ahead of the loaded word.
C2_ReturnedIntoWord ==
    /\ Stepped /\ PrevReturns /\ Top(PrevFrames) # <<>>
    /\ Top(PrevFrames)[1].cw > Top(PrevFrames)[1].lw
    /\ Top(PrevFrames)[1].ii < SIZE - 1
    /\ result.kind = "none"

\* C3: lit moves the literal cursor on by one and pushes the word there; the
\* address stack and the image are untouched, and below byte 3 the loaded
\* word, its index and the cached bytes stay, the next opcode being the next
\* byte of that word.  At byte 3 the advance after the step moves to the word
\* after the literal.
C3_LitReadsNextWord ==
    (Stepped /\ PrevOp = OpCode.Lit /\ InImage(Prev, Prev.current_word_index + 1))
    => /\ data = Append(Prev.data, Prev.image[Prev.current_word_index + 2])
       /\ address = Prev.address
       /\ image = Prev.image
       /\ AtOpcodeAfter(Prev.loaded_word_index, Prev.current_word_index + 1,
                        Prev.instruction_index)
       /\ Prev.instruction_index < SIZE - 1 => word = Prev.word /\ result.kind = "none"
\* C3 happens: a lit ran with the cursor already ahead of the loaded word.
C3_SecondLitRan ==
    /\ Stepped /\ PrevOp = OpCode.Lit
    /\ Prev.current_word_index > Prev.loaded_word_index
    /\ Prev.instruction_index < SIZE - 1
    /\ result.kind = "none"

\* C4: in every state ip() is loaded_word_index * 4 + instruction_index.
C4_IpIsLoadedWordAndIndex == ip(Machine) = IpValue(loaded_word_index, instruction_index)

\* C5: when a step brings loaded_word_index to the image length or beyond, it
\* returns the "IP went out of bounds." error.
C5_OutOfBoundsIsAnError ==
    (Stepped /\ loaded_word_index >= Len(image))
    => result.kind = "error" /\ result.message = "IP went out of bounds."

\* C6: every error that run() returns has its ip set.
C6_ErrorsCarryIp == result.kind = "error" => result.ip # None

\* C7: halt clears the running flag and nothing else moves: the three
\* indices, both stacks and the image stay, run() returns Ok, and dump() is
\* called exactly when the data stack is non-empty with u32::MAX on top.
C7_HaltStopsInPlace ==
    (Stepped /\ PrevOp = OpCode.Halt)
    => /\ ~running
       /\ loaded_word_index = Prev.loaded_word_index
       /\ current_word_index = Prev.current_word_index
       /\ instruction_index = Prev.instruction_index
       /\ data = Prev.data
       /\ address = Prev.address
       /\ image = Prev.image
       /\ result = Ok
       /\ pc = "done"
       /\ dumped <=> (data # <<>> /\ Top(data) = u32_MAX)
\* C7 happens: a halt ran with u32::MAX on top of the data stack.
C7_HaltedWithDump == Stepped /\ PrevOp = OpCode.Halt /\ data # <<>> /\ Top(data) = u32_MAX

RECURSIVE RequestsFrom(_, _)
\* The DMA requests the devices from i on hold, in registration order.
RequestsFrom(devs, i) ==
    IF i > Len(devs) THEN <<>>
    ELSE [k \in 1 .. Len(devs[i].pending) |->
             [device |-> i, op |-> devs[i].pending[k].op,
              address |-> devs[i].pending[k].address]] \o RequestsFrom(devs, i + 1)
\* The calls the latest sync pass answered, without the values.
Answered(log) ==
    [k \in 1 .. Len(log) |->
        [device |-> log[k].device, op |-> log[k].op, address |-> log[k].address]]

\* C8 as the text has it: after every step that does not fail, halt
\* included, run() makes a sync pass before anything else.
C8_SyncAfterEveryStep == [][(pc = "step" /\ result'.kind \in {"none", "ok"}) => pc' = "sync"]_vars
\* C8: after every step that returns Ok and leaves the machine running, that
\* is after every opcode but halt, run() makes a sync pass before the next
\* opcode: it answers the requests of the devices in registration order, all
\* those of one device before the next, and leaves none pending.  After halt
\* run() returns with no sync pass: devices and image stay as halt left them.
C8_SyncAfterRunningStep ==
    [][/\ (pc = "step" /\ result'.kind = "none") => (running' /\ pc' = "sync")
       /\ (pc = "step" /\ instruction(Machine) = OpCode.Halt)
          => (pc' = "done" /\ UNCHANGED <<devices, image, dma_log>>)
       /\ pc = "sync"
          => /\ pc' = "step"
             /\ \A i \in 1 .. Len(devices') : devices'[i].pending = <<>>
             /\ Answered(dma_log') = RequestsFrom(devices, 1)]_vars
\* C8 happens: a sync pass has answered the three requests of two devices.
C8_SyncAnsweredRequests ==
    /\ pc = "step"
    /\ ~Stepped
    /\ Len(dma_log) = 3
    /\ dma_log[1].device = 1 /\ dma_log[3].device = 2

\* C9: ifz:ret peeks.  With a nonzero predicate on top both stacks are as they
\* were and the next opcode in sequence follows; with zero on top the
\* predicate and one address are popped and the indices come from that
\* address (lw = ip >> 17, cw = (ip >> 2) & 0x7FFF, ii = ip & 3, then the
\* advance).  A plain ret leaves the data stack alone.
C9_ReturnIfZeroPeeks ==
    /\ (Stepped /\ PrevOp = OpCode.ReturnIfZ /\ Prev.data # <<>> /\ Top(Prev.data) # Zero)
       => /\ data = Prev.data
          /\ address = Prev.address
          /\ AtOpcodeAfter(Prev.loaded_word_index, Prev.current_word_index,
                           Prev.instruction_index)
    /\ (Stepped /\ PrevOp = OpCode.ReturnIfZ /\ PrevReturns)
       => /\ data = Pop(Prev.data)
          /\ address = Pop(Prev.address)
          /\ Top(Prev.address).hi \div 2 < Len(image)
             => AtOpcodeAfter(Top(Prev.address).hi \div 2,
                              (Top(Prev.address).hi % 2) * 16384 + Top(Prev.address).lo \div 4,
                              Top(Prev.address).lo % 4)
    /\ (Stepped /\ PrevOp = OpCode.Return) => data = Prev.data
\* C9 happens: an ifz:ret found a nonzero predicate above a non-empty
\* address stack and went on.
C9_ReturnNotTaken ==
    /\ Stepped /\ PrevOp = OpCode.ReturnIfZ
    /\ Prev.data # <<>> /\ Top(Prev.data) # Zero
    /\ Prev.address # <<>>
    /\ result.kind = "none"

\* C10: ifz:jump and ifz:call pop the target and then the predicate.  With a
\* nonzero predicate the next opcode in sequence follows and the address
\* stack is as it was; with a zero predicate the transfer is made (to a
\* target inside the image the machine lands on it, and ifz:call has pushed
\* the encoded ip of the call).  Address 0 is reached only where the build
\* does not check overflow: the transfer then ends in the panic of jump/call.
C10_IfZeroPopsTwo ==
    (Stepped /\ PrevOp \in {OpCode.JumpIfZ, OpCode.CallIfZ} /\ Len(Prev.data) >= 2)
    => /\ data = SubSeq(Prev.data, 1, Len(Prev.data) - 2)
       /\ PrevPredicate # Zero
          => /\ address = Prev.address
             /\ AtOpcodeAfter(Prev.loaded_word_index, Prev.current_word_index,
                              Prev.instruction_index)
       /\ (PrevPredicate = Zero /\ InImage(Prev, UDiv4(Top(Prev.data))))
          => /\ \/ FetchesFrom(UDiv4(Top(Prev.data)), UMod4(Top(Prev.data)))
                \/ Top(Prev.data) = Zero /\ result = Panic("arithmetic overflow")
             /\ address = IF PrevOp = OpCode.CallIfZ
                          THEN Append(Prev.address, ip_get_encoded(Prev))
                          ELSE Prev.address
\* C10 happens: an ifz:call with a nonzero predicate went on without a call.
C10_CallNotTaken ==
    /\ Stepped /\ PrevOp = OpCode.CallIfZ /\ Len(Prev.data) >= 2
    /\ PrevPredicate # Zero
    /\ result.kind = "none"

(***************************************************************************)
(* A second family of runs, for what single instructions compute: the      *)
(* image is one instruction word with its literal operands (and, for the   *)
(* memory instructions, MaxData words of data after them).                 *)
(***************************************************************************)
\* Number of data words behind a load or store program.
MaxData == 2

\* Operands of the comparisons and of add, sub, mul: small values, the
\* values around 2^16 and 2^31, -5 and u32::MAX.
Operands ==
    {Zero, U32(1), U32(2), U32(7), U32(65535), U32(65536),
     [hi |-> 32767, lo |-> 65535], [hi |-> 32768, lo |-> 0],
     [hi |-> 65535, lo |-> 65531], u32_MAX}
\* Operands of sext.8 and sext.16: both sides of 0x7F/0x80, 0xFF/0x100,
\* 0x7FFF/0x8000, 0xFFFF/0x10000, and values with high bits set.
SextOperands ==
    {Zero, U32(127), U32(128), U32(255), U32(256), U32(32767), U32(32768),
     U32(65535), U32(65536), [hi |-> 4660, lo |-> 22144], [hi |-> 65535, lo |-> 65408],
     u32_MAX}
\* Contents of a data word: 0, u32::MAX and 0x12345678.
DataWords == {Zero, u32_MAX, [hi |-> 4660, lo |-> 22136]}
\* Values stored: a byte, a value above a byte, u32::MAX and 0x12345678.
StoredValues == {U32(65), U32(4660), u32_MAX, [hi |-> 4660, lo |-> 22136]}
\* The data words that follow `code` words: all sequences of MaxData words.
DataAreas == [1 .. MaxData -> DataWords]
\* The byte addresses of the data area that starts at word `base`.
DataAddresses(base) == {U32(a) : a \in (SIZE * base) .. (SIZE * (base + MaxData) - 1)}
\* Exec-Read, Exec-Write of 'A', Reset, Get register 0, Set register 0 and a
\* malformed word, as io commands.
IoCommands ==
    {[hi |-> 768, lo |-> 0], [hi |-> 768, lo |-> 321], Zero,
     [hi |-> 256, lo |-> 0], [hi |-> 512, lo |-> 5], u32_MAX}

ArithmeticImages ==
    {<<Word(OpCode.Lit, OpCode.Lit, op, OpCode.Halt), nos, tos>> :
        op \in {OpCode.Equal, OpCode.LessThan, OpCode.GreaterThan,
                OpCode.Add, OpCode.Sub, OpCode.Mul},
        nos \in Operands, tos \in Operands}
SextImages ==
    {<<Word(OpCode.Lit, op, op, OpCode.Halt), v>> :
        op \in {OpCode.Sext8, OpCode.Sext16}, v \in SextOperands}
LoadImages ==
    {<<Word(OpCode.Lit, op, OpCode.Halt, OpCode.Nop), a>> \o d :
        op \in {OpCode.Load, OpCode.Loads, OpCode.Load8, OpCode.Loads8},
        a \in DataAddresses(2), d \in DataAreas}
StoreImages ==
    {<<Word(OpCode.Lit, OpCode.Lit, op, OpCode.Halt), a, v>> \o d :
        op \in {OpCode.Store, OpCode.Stores, OpCode.Store8, OpCode.Stores8},
        a \in DataAddresses(3), v \in StoredValues, d \in DataAreas}
IoImages ==
    {<<Word(OpCode.Lit, OpCode.Lit, OpCode.Io, OpCode.Halt), id, command>> :
        id \in {Zero, U32(1)}, command \in IoCommands}
\* Parser::parse_opcode: the opcode a mnemonic of the assembler stands for.
parse_opcode(text) ==
    LET Known(op) == [kind |-> "Ok", opcode |-> op]
    IN  CASE text = "halt" -> Known(OpCode.Halt)
          [] text = "lit" -> Known(OpCode.Lit)
          [] text = "add" -> Known(OpCode.Add)
          [] text = "sub" -> Known(OpCode.Sub)
          [] text = "mul" -> Known(OpCode.Mul)
          [] text = "shift" -> Known(OpCode.Shift)
          [] text = "div" -> Known(OpCode.Div)
          [] text = "mod" -> Known(OpCode.Mod)
          [] text = "dup" -> Known(OpCode.Dup)
          [] text = "drop" -> Known(OpCode.Drop)
          [] text = "swap" -> Known(OpCode.Swap)
          [] text = "call" -> Known(OpCode.Call)
          [] text = "jump" -> Known(OpCode.Jump)
          [] text = "ret" -> Known(OpCode.Return)
          [] text = "ifz:call" -> Known(OpCode.CallIfZ)
          [] text = "ifz:jump" -> Known(OpCode.JumpIfZ)
          [] text = "ifz:ret" -> Known(OpCode.ReturnIfZ)
          [] text = "io" -> Known(OpCode.Io)
          [] text = "pop" -> Known(OpCode.MoveAddrToData)
          [] text = "push" -> Known(OpCode.MoveDataToAddr)
          [] text = "load" -> Known(OpCode.Load)
          [] text = "store" -> Known(OpCode.Store)
          [] text = "load.8" -> Known(OpCode.Load8)
          [] text = "store.8" -> Known(OpCode.Store8)
          [] text = "sext.8" -> Known(OpCode.Sext8)
          [] text = "sext.16" -> Known(OpCode.Sext16)
          [] text = "eq" -> Known(OpCode.Equal)
          [] text = "lt" -> Known(OpCode.LessThan)
          [] text = "gt" -> Known(OpCode.GreaterThan)
          [] text = "and" -> Known(OpCode.And)
          [] text = "or" -> Known(OpCode.Or)
          [] text = "not" -> Known(OpCode.Not)
          [] text = "nop" -> Known(OpCode.Nop)
          [] OTHER -> [kind |-> "Err", opcode |-> text]
\* A line of four mnemonics, assembled into a word.
Line(a, b, c, d) ==
    Word(parse_opcode(a).opcode, parse_opcode(b).opcode,
         parse_opcode(c).opcode, parse_opcode(d).opcode)

\* The images of test_store, test_store_8 and test_store_8_consec: `$>` is
\* the byte address of the data word at `$`, and `===` pads the word with 0.
test_store == <<Line("lit", "lit", "store", "halt"), U32(12), U32(1000), Zero>>
test_store_8 == <<Line("lit", "lit", "store.8", "halt"), U32(12), U32(7), Zero>>
test_store_8_consec ==
    <<Line("lit", "lit", "store.8", "lit"), U32(32), U32(2), U32(3),
      Line("store.8", "lit", "store.8", "lit"), U32(4), U32(5),
      Line("store.8", "halt", "nop", "nop"), Zero>>
StoreTestImages == {test_store, test_store_8, test_store_8_consec}

\* Two programs that store into the word they are running from: the word
\* `nop nop nop halt` over word 0, and the byte of `halt` over its last opcode.
store_to_loaded_word ==
    <<Line("lit", "lit", "store", "nop"), Zero, Line("nop", "nop", "nop", "halt"), HaltWord>>
store_8_to_loaded_word ==
    <<Line("lit", "lit", "store.8", "nop"), U32(3), U32(OpCode.Halt), HaltWord>>
SelfModifyingImages == {store_to_loaded_word, store_8_to_loaded_word}

InstructionImages ==
    ArithmeticImages \cup SextImages \cup LoadImages \cup StoreImages \cup IoImages
        \cup StoreTestImages \cup SelfModifyingImages

\* BearVM::new(image), with_device for each device, start(), for these images.
InitInstruction ==
    /\ image \in InstructionImages
    /\ devices \in DeviceLists
    /\ data = <<>>
    /\ address = <<>>
    /\ instruction_index = 0
    /\ loaded_word_index = 0
    /\ current_word_index = 0
    /\ word = to_le_bytes(image[1])
    /\ running = TRUE
    /\ dumped = FALSE
    /\ dma_log = <<>>
    /\ result = NoError
    /\ pc = "init"
    /\ before = <<>>
    /\ frames = <<>>
    /\ NoDevice /\ NoCodec /\ NoAssembler

InstructionSpec == InitInstruction /\ [][Next]_vars

\* The operands a two-operand instruction popped, and what lay below them.
PrevTos == Top(Prev.data)
PrevNos == Prev.data[Len(Prev.data) - 1]
PrevRest == SubSeq(Prev.data, 1, Len(Prev.data) - 2)
\* The step ran opcode `op` with at least `n` cells on the data stack.
Ran(op, n) == Stepped /\ PrevOp = op /\ Len(Prev.data) >= n
\* a < b as unsigned 32-bit numbers, on the integers a / 2 and b / 2.
Half(c) == c.hi * 32768 + c.lo \div 2
UnsignedLess(a, b) == Half(a) < Half(b) \/ (Half(a) = Half(b) /\ a.lo % 2 < b.lo % 2)

C12_ArithmeticWraps ==
    /\ Ran(OpCode.Add, 2)
       => /\ result.kind = "none"
          /\ data = Append(PrevRest, CellAdd(PrevTos, PrevNos))
          /\ (PrevTos = u32_MAX /\ PrevNos = U32(1)) => Top(data) = Zero
    /\ Ran(OpCode.Sub, 2)
       => /\ result.kind = "none"
          /\ data = Append(PrevRest, CellSub(PrevTos, PrevNos))
          /\ (PrevTos = U32(7) /\ PrevNos = U32(2)) => Top(data) = U32(5)
          /\ (PrevTos = U32(2) /\ PrevNos = U32(7)) => Top(data) = [hi |-> 65535, lo |-> 65531]
    /\ Ran(OpCode.Mul, 2)
       => /\ result.kind = "none"
          /\ data = Append(PrevRest, CellMul(PrevTos, PrevNos))
          /\ (PrevTos = u32_MAX /\ PrevNos = u32_MAX) => Top(data) = U32(1)
          /\ (PrevTos = U32(2) /\ PrevNos = [hi |-> 32767, lo |-> 65535])
             => Top(data) = [hi |-> 65535, lo |-> 65534]
\* C12 happens: 7 was pushed, then 2, and sub left 0xFFFFFFFB.
C12_TwoMinusSeven ==
    /\ Ran(OpCode.Sub, 2)
    /\ PrevNos = U32(7) /\ PrevTos = U32(2)
    /\ data = <<[hi |-> 65535, lo |-> 65531]>>

\* C13: sext.8 pops V and pushes V | 0xFFFFFF00 when 0x80 <= V <= 0xFF and V
\* itself otherwise; sext.16 pushes V | 0xFFFF0000 when 0x8000 <= V <= 0xFFFF
\* and V itself otherwise.
C13_SextExtendsTheSign ==
    /\ Ran(OpCode.Sext8, 1)
       => LET V == Top(Prev.data)
          IN  /\ result.kind = "none"
              /\ data = Append(Pop(Prev.data),
                               IF V.hi = 0 /\ 128 <= V.lo /\ V.lo <= 255
                               THEN BitOr(V, [hi |-> 65535, lo |-> 65280]) ELSE V)
    /\ Ran(OpCode.Sext16, 1)
       => LET V == Top(Prev.data)
          IN  /\ result.kind = "none"
              /\ data = Append(Pop(Prev.data),
                               IF V.hi = 0 /\ 32768 <= V.lo
                               THEN BitOr(V, [hi |-> 65535, lo |-> 0]) ELSE V)
\* C13 happens: sext.8 turned 0x80 into 0xFFFFFF80.
C13_ByteWasExtended ==
    /\ Ran(OpCode.Sext8, 1)
    /\ Prev.data = <<U32(128)>>
    /\ data = <<[hi |-> 65535, lo |-> 65408]>>

\* C14: sext.8 is idempotent, and so is sext.16: executing the instruction
\* again on the stack it left changes nothing, both as a function of the
\* machine and in the programs that execute it twice in a row.
C14_SextIsIdempotent ==
    /\ (Ran(OpCode.Sext8, 1) /\ result.kind = "none")
       => /\ inst_sext_8(Machine).data = data
          /\ ~Failed(inst_sext_8(Machine))
    /\ (Ran(OpCode.Sext16, 1) /\ result.kind = "none")
       => /\ inst_sext_16(Machine).data = data
          /\ ~Failed(inst_sext_16(Machine))
    /\ (Ran(OpCode.Sext8, 1) /\ Prev.instruction_index = 2 /\ Prev.word[2] = OpCode.Sext8)
       => data = Prev.data
    /\ (Ran(OpCode.Sext16, 1) /\ Prev.instruction_index = 2 /\ Prev.word[2] = OpCode.Sext16)
       => data = Prev.data
\* C14 happens: the second sext.8 of `lit sext.8 sext.8 halt` ran on the
\* 0xFFFFFF80 the first one made of 0x80.
C14_SecondSextRan ==
    /\ Ran(OpCode.Sext8, 1)
    /\ Prev.instruction_index = 2
    /\ image[2] = U32(128)
    /\ data = <<[hi |-> 65535, lo |-> 65408]>>

\* The byte address a memory instruction popped lies in the image, together
\* with the following word when the address is misaligned.
AddressInImage(A, m) ==
    /\ InImage(m, UDiv4(A))
    /\ UMod4(A) # 0 => InImage(m, UDiv4(A) + 1)
\* Bit i of the value C15 describes, from the bits of the two words:
\* high contributes bit i - shift of the first word to every bit i >= shift,
\* low contributes the top `shift` bits of the second word to bits 24 .. 24 + shift - 1.
LoadedBit(first, second, shift, i) ==
    IF \/ (i >= shift /\ BitOf(first, i - shift) = 1)
       \/ (24 <= i /\ i < 24 + shift /\ BitOf(second, i + 8 - shift) = 1)
    THEN 1 ELSE 0

\* C15: load (and loads) at byte address A reads image[A / 4] when A is
\* aligned and, when A is misaligned by r, high | low with shift = 2r,
\* mask = 0xFFFFFFFF >> shift, high = (image[A/4] & mask) << shift and
\* low = (image[A/4 + 1] & ~mask) >> (8 - shift); the image is unchanged.
C15_LoadAssemblesTwoWords ==
    \A op \in {OpCode.Load, OpCode.Loads} :
        (Ran(op, 1) /\ AddressInImage(Top(Prev.data), Prev))
        => LET A == Top(Prev.data)
               r == UMod4(A)
               first == Prev.image[UDiv4(A) + 1]
               shift == 2 * r
               mask == Shr(u32_MAX, shift)
               loaded == data[Len(Prev.data)]
           IN  /\ result.kind = "none"
               /\ image = Prev.image
               /\ r = 0 => loaded = first
               /\ r # 0 =>
                    LET second == Prev.image[UDiv4(A) + 2]
                        high == Shl(BitAnd(first, mask), shift)
                        low == Shr(BitAnd(second, BitNot(mask)), 8 - shift)
                    IN  /\ loaded = BitOr(high, low)
                        /\ \A i \in 0 .. 31 : BitOf(loaded, i) = LoadedBit(first, second, shift, i)
\* C15 happens: load at an address misaligned by 1 read 0x4BD159E0 from the
\* words 0x12345678 and 0xFFFFFFFF.
C15_MisalignedLoad ==
    /\ Ran(OpCode.Load, 1)
    /\ UMod4(Top(Prev.data)) = 1
    /\ Prev.image[UDiv4(Top(Prev.data)) + 1] = [hi |-> 4660, lo |-> 22136]
    /\ Prev.image[UDiv4(Top(Prev.data)) + 2] = u32_MAX
    /\ data = <<[hi |-> 19409, lo |-> 23008]>>
    /\ image = Prev.image

\* The value `load` reads at byte address A from the machine as it is now.
LoadsNow(A) == Top(inst_load(data_push(Machine, A), FALSE).data)

\* C16: store of V at byte address A, aligned or not, with the word(s) of A
\* inside the image, followed by load at A yields V.
C16_StoreThenLoadYieldsV ==
    \A op \in {OpCode.Store, OpCode.Stores} :
        (Ran(op, 2) /\ AddressInImage(PrevNos, Prev))
        => /\ result.kind = "none"
           /\ ~Failed(inst_load(data_push(Machine, PrevNos), FALSE))
           /\ LoadsNow(PrevNos) = PrevTos

\* C17: store.8 of V at byte address A writes exactly one byte: byte A mod 4
\* of word A / 4 becomes V & 0xFF, the other three bytes of the word and every
\* other word are unchanged, and load.8 at A then yields V & 0xFF.
C17_Store8WritesOneByte ==
    \A op \in {OpCode.Store8, OpCode.Stores8} :
        (Ran(op, 2) /\ InImage(Prev, UDiv4(PrevNos)))
        => LET w == UDiv4(PrevNos) + 1
               b == UMod4(PrevNos) + 1
           IN  /\ result.kind = "none"
               /\ to_le_bytes(image[w])[b] = PrevTos.lo % 256
               /\ \A k \in (1 .. SIZE) \ {b} : to_le_bytes(image[w])[k] = to_le_bytes(Prev.image[w])[k]
               /\ \A i \in (1 .. Len(image)) \ {w} : image[i] = Prev.image[i]
               /\ Len(image) = Len(Prev.image)
               /\ Top(inst_load_8(data_push(Machine, PrevNos), FALSE).data) = U32(PrevTos.lo % 256)

C19_StoreMnemonicLeavesNextAddress ==
    /\ (Ran(parse_opcode("store").opcode, 2) /\ AddressInImage(PrevNos, Prev) /\ UMod4(PrevNos) = 0)
       => /\ image[UDiv4(PrevNos) + 1] = PrevTos
          /\ data = Append(PrevRest, CellAdd(PrevNos, U32(4)))
    /\ (Ran(parse_opcode("store.8").opcode, 2) /\ InImage(Prev, UDiv4(PrevNos)))
       => /\ to_le_bytes(image[UDiv4(PrevNos) + 1])[UMod4(PrevNos) + 1] = PrevTos.lo % 256
          /\ data = Append(PrevRest, CellAdd(PrevNos, U32(1)))
    /\ (pc = "done" /\ Stepped /\ Prev.image = test_store_8_consec)
       => /\ result = Ok
          /\ data = <<U32(36)>>
          /\ image[Len(image)] = [hi |-> 1284, lo |-> 770]

\* C20: io pops the command (top) and the device id (next), calls ioctl with
\* the command once on the device registered under the id, and pushes the id
\* and then the value ioctl returned: the depth of the data stack is the same
\* and the stack ends [.., id, result].  A stdin device at id 0 that holds the
\* byte 0x41 answers Exec-Read with 0x41 and holds nothing afterwards.
C20_IoCallsDeviceOnce ==
    (Ran(OpCode.Io, 2) /\ PrevNos.hi = 0 /\ PrevNos.lo < Len(Prev.devices))
    => LET id == PrevNos.lo + 1
           called == ioctl(Prev.devices[id], PrevTos)
       IN  /\ result.kind = "none"
           /\ Len(data) = Len(Prev.data)
           /\ data = PrevRest \o <<PrevNos, called.result>>
           /\ devices = [Prev.devices EXCEPT ![id] = called.device]
           /\ image = Prev.image
           /\ (Prev.devices[id].kind = "stdin" /\ Prev.devices[id].input = <<65>>
                 /\ PrevTos = [hi |-> 768, lo |-> 0])
              => /\ data = PrevRest \o <<PrevNos, U32(65)>>
                 /\ devices[id].input = <<>>
           /\ (Prev.devices[id].kind = "stdout" /\ PrevTos = [hi |-> 768, lo |-> 321])
              => /\ data = PrevRest \o <<PrevNos, Zero>>
                 /\ devices[id].output = Append(Prev.devices[id].output, 65)
\* C20 happens: io read the byte 0x41 from the stdin device at id 0 and left
\* [0, 0x41] on the data stack.
C20_ReadByteFromStdin ==
    /\ Ran(OpCode.Io, 2)
    /\ Prev.devices[1].kind = "stdin" /\ Prev.devices[1].input = <<65>>
    /\ Prev.data = <<Zero, [hi |-> 768, lo |-> 0]>>
    /\ data = <<Zero, U32(65)>>
    /\ devices[1].input = <<>>

(***************************************************************************)
(* A third family of runs: a stream device on its own, sent one command    *)
(* word after another through Device::ioctl.  The device starts in any     *)
(* GenericDeviceState; the words are encoded commands and raw words.       *)
(***************************************************************************)
MaxOutput == 2
MaxReads == 2

\* No machine has been built.
NoMachine ==
    /\ image = <<>>
    /\ devices = <<>>
    /\ data = <<>>
    /\ address = <<>>
    /\ instruction_index = 0
    /\ loaded_word_index = 0
    /\ current_word_index = 0
    /\ word = <<>>
    /\ running = FALSE
    /\ dumped = FALSE
    /\ dma_log = <<>>
    /\ result = NoError
    /\ pc = "off"
    /\ before = <<>>
    /\ frames = <<>>

DeviceStates == {ReadyForCommand, Busy, Error(1), Error(7)}
StreamDevices ==
    {[StdinDevice(bytes) EXCEPT !.state = st] : bytes \in {<<>>, <<65>>, <<65, 0>>}, st \in DeviceStates}
        \cup {[StdoutDevice EXCEPT !.state = st] : st \in DeviceStates}
GenericDeviceCommands ==
    {Reset}
        \cup {GetRegister(index) : index \in {0, 5, 255}}
        \cup {SetRegister(index, value) : index \in {0, 255}, value \in {0, 1, 65535}}
        \cup {ExecuteCommand(command, argument) :
                command \in {StreamCommand.Read, StreamCommand.Write, StreamCommand.Seek, 3, 255},
                argument \in {0, 65, 255}}
\* Words that no command encodes to: a tag above 3, a tag 0 with other bits
\* set, a Get with low bits set, and an Exec with bits 16..23 set.
RawWords ==
    {[hi |-> 1024, lo |-> 0], [hi |-> 32768, lo |-> 0], u32_MAX, U32(1), [hi |-> 255, lo |-> 0],
     [hi |-> 256, lo |-> 1], [hi |-> 261, lo |-> 65535], [hi |-> 1023, lo |-> 321],
     [hi |-> 1023, lo |-> 0]}

InitDevice ==
    /\ NoMachine /\ NoCodec /\ NoAssembler
    /\ device \in StreamDevices
    /\ sent = <<>>
    /\ message = <<>>
    /\ answer = <<>>
    /\ device_before = <<>>
    /\ reads = <<>>
    /\ handle = device.input

\* device.ioctl(w) and what it leaves.
Ioctl(w) ==
    \E done \in {ioctl(device, w)} :
        /\ Len(done.device.output) <= MaxOutput
        /\ Len(reads) <= MaxReads
        /\ device' = done.device
        /\ message' = <<w>>
        /\ answer' = <<done.result>>
        /\ device_before' = <<device>>
        /\ reads' = IF decode(w) = ExecuteCommand(StreamCommand.Read, decode(w).b)
                     THEN Append(reads, done.result)
                     ELSE reads
        /\ UNCHANGED handle

\* A driver encodes a command and sends it.
IoctlCommand ==
    /\ \E c \in GenericDeviceCommands : Ioctl(encode(c)) /\ sent' = <<c>>
    /\ UNCHANGED <<machine_vars, codec_vars, assembler_vars>>

\* A program sends a word it computed.
IoctlWord ==
    /\ \E w \in RawWords : Ioctl(w) /\ sent' = <<>>
    /\ UNCHANGED <<machine_vars, codec_vars, assembler_vars>>

NextDevice == IoctlCommand \/ IoctlWord

DeviceSpec == InitDevice /\ [][NextDevice]_vars

\* An ioctl has just returned.
Called == message # <<>>
\* The byte in bits 24..31 of a word, and its bits 0..15.
HighByte(w) == w.hi \div 256
Malformed(w) ==
    \/ HighByte(w) > 3
    \/ (HighByte(w) = 0 /\ w # Zero)
    \/ (HighByte(w) = 1 /\ w.lo # 0)

\* C29: decode(encode(c)) = c for every command c; a word is malformed, decode
\* gives None and ioctl answers 0xFFFFFFFF, exactly when its high byte is
\* above 3, or is 0 in a word that is not 0, or is 1 with bits 0..15 not 0.
C29_DecodeInvertsEncode ==
    Called
    => /\ sent # <<>> => decode(message[1]) = sent[1]
       /\ decode(message[1]).tag = "None" <=> Malformed(message[1])
       /\ Malformed(message[1]) => (answer = <<u32_MAX>> /\ device = device_before[1])
\* C29 happens: a Set of register 255 to 0xFFFF went through encode and decode.
C29_SetWentRoundTrip ==
    /\ Called
    /\ sent = <<SetRegister(255, 65535)>>
    /\ message = <<[hi |-> 767, lo |-> 65535]>>
    /\ decode(message[1]) = SetRegister(255, 65535)
\* C30: in state Busy or Error(code) ioctl answers 0xFFFFFFFF to every word,
\* reads and writes nothing and leaves the state of the device as it was.
C30_OnlyReadyAcceptsCommands ==
    (Called /\ device_before[1].state # ReadyForCommand)
    => /\ answer = <<u32_MAX>>
       /\ device.input = device_before[1].input
       /\ device.output = device_before[1].output
       /\ device.state = device_before[1].state
\* C30 happens: a Busy stdin device that holds a byte refused an Exec-Read and
\* kept the byte.
C30_BusyRefusedRead ==
    /\ Called
    /\ device_before[1].kind = "stdin"
    /\ device_before[1].state = Busy
    /\ device_before[1].input = <<65>>
    /\ message = <<encode(ExecuteCommand(StreamCommand.Read, 0))>>
    /\ answer = <<u32_MAX>>
    /\ device.input = <<65>>
    /\ device.state = Busy

(***************************************************************************)
(* A fourth family of runs: opcodes through the encoder of the assembler   *)
(* (OpCode::into_u8) and the decoder of the machine (OpCode::try_from).    *)
(***************************************************************************)
\* enum OpCode, the variants in the order of their declaration.
Variants ==
    <<"Nop", "Lit", "Dup", "Drop", "Swap", "MoveDataToAddr", "MoveAddrToData",
      "Not", "And", "Or", "Xor", "Equal", "LessThan", "GreaterThan",
      "Add", "Sub", "Mul", "Div", "Mod", "Shift", "Sext8", "Sext16",
      "Call", "Jump", "Return", "CallIfZ", "JumpIfZ", "ReturnIfZ",
      "Load", "Loads", "Store", "Stores", "Load8", "Store8", "Loads8", "Stores8",
      "Io", "Halt">>

RECURSIVE Discriminant(_)
\* #[repr(u8)]: the first variant is 0, a variant without `= value` is one
\* more than the variant before it, and Halt = 0b_0111_1111.
Discriminant(i) ==
    IF Variants[i] = "Halt" THEN 127
    ELSE IF i = 1 THEN 0
    ELSE Discriminant(i - 1) + 1

\* OpCode::into_u8: transmute(self), the discriminant.
into_u8(op) == Discriminant(CHOOSE i \in 1 .. Len(Variants) : Variants[i] = op)

\* OpCode::try_from(byte): transmute(byte) is the variant whose discriminant
\* the byte is, and undefined when there is none.
try_from(b) ==
    LET with == {i \in 1 .. Len(Variants) : Discriminant(i) = b}
    IN  IF InvalidByte(b)
        THEN [kind |-> "Err", opcode |-> "", error |-> invalid_instruction(b)]
        ELSE IF with = {} THEN [kind |-> "Undefined", opcode |-> "", error |-> NoError]
        ELSE [kind |-> "Ok", opcode |-> Variants[CHOOSE i \in with : TRUE], error |-> NoError]

ByteValues == 0 .. 255

InitOpcode ==
    /\ NoMachine /\ NoDevice /\ NoCodec /\ NoAssembler

\* The assembler emits op.into_u8() and the machine decodes the byte.
AssembleOpcode ==
    /\ \E i \in 1 .. Len(Variants) :
         \E b \in {into_u8(Variants[i])} :
           /\ assembled' = <<Variants[i]>>
           /\ byte' = <<b>>
           /\ decoded' = <<try_from(b)>>
    /\ UNCHANGED <<v8, v32, unpacked>>
    /\ UNCHANGED <<machine_vars, device_vars, assembler_vars>>

\* The machine decodes a byte of the image, whatever put it there.
FetchByte ==
    /\ \E b \in ByteValues :
           /\ assembled' = <<>>
           /\ byte' = <<b>>
           /\ decoded' = <<try_from(b)>>
    /\ UNCHANGED <<v8, v32, unpacked>>
    /\ UNCHANGED <<machine_vars, device_vars, assembler_vars>>

NextOpcode == AssembleOpcode \/ FetchByte

OpcodeSpec == InitOpcode /\ [][NextOpcode]_vars

\* A machine about to fetch byte b: an image of one word made of four b.
FetchMachine(b) ==
    [image |-> <<from_le_bytes(<<b, b, b, b>>)>>, data |-> <<>>, address |-> <<>>,
     devices |-> <<>>, instruction_index |-> 0, loaded_word_index |-> 0,
     current_word_index |-> 0, word |-> <<b, b, b, b>>, running |-> TRUE,
     dumped |-> FALSE, dma_log |-> <<>>, err |-> NoError]

\* C21: the encoding of opcodes is a bijection the assembler and the machine
\* share: the byte into_u8(op) decodes to op for every variant; a byte decodes
\* iff it is at most the byte of io or is 0x7F, which is halt; every other
\* byte is the invalid-instruction error when step() fetches it.
C21_OpcodeEncodingIsBijective ==
    byte # <<>>
    => LET b == byte[1]
           r == decoded[1]
       IN  /\ assembled # <<>>
              => (r.kind = "Ok" /\ r.opcode = assembled[1] /\ OpCode[assembled[1]] = b)
           /\ r.kind = "Ok" <=> (b <= into_u8("Io") \/ b = 127)
           /\ r.kind = "Ok" => into_u8(r.opcode) = b
           /\ b = 127 => r.opcode = "Halt"
           /\ r.kind # "Ok"
              => /\ r.kind = "Err" /\ r.error = invalid_instruction(b)
                 /\ step(FetchMachine(b), FALSE).err
                      = with_ip(invalid_instruction(b), ip(FetchMachine(b)))
           /\ r.kind = "Ok" => step(FetchMachine(b), FALSE).err.message # invalid_instruction(b).message
\* C21 happens: halt was encoded as 0x7F and decoded as halt.
C21_HaltWentRoundTrip ==
    /\ assembled = <<"Halt">>
    /\ byte = <<127>>
    /\ decoded[1].kind = "Ok" /\ decoded[1].opcode = "Halt"

(***************************************************************************)
(* A fifth family of runs: a byte vector packed into words and unpacked    *)
(* again (util.rs).                                                        *)
(***************************************************************************)
MaxBytes == 5

RECURSIVE convert_slice8_to_vec32_dropping_remainder(_)
\* A faulty packing that forgets the remainder of chunks_exact; C22 does not
\* hold of it.
convert_slice8_to_vec32_dropping_remainder(v) ==
    IF Len(v) >= SIZE
    THEN <<from_le_bytes(SubSeq(v, 1, SIZE))>>
            \o convert_slice8_to_vec32_dropping_remainder(SubSeq(v, SIZE + 1, Len(v)))
    ELSE <<>>

RECURSIVE PackChunks(_)
\* The loop over chunks_exact(4) and the copy of the remainder into [0; 4].
PackChunks(v) ==
    IF Len(v) >= SIZE
    THEN <<from_le_bytes(SubSeq(v, 1, SIZE))>> \o PackChunks(SubSeq(v, SIZE + 1, Len(v)))
    ELSE IF Len(v) # 0
    THEN <<from_le_bytes([i \in 1 .. SIZE |-> IF i <= Len(v) THEN v[i] ELSE 0])>>
    ELSE <<>>

\* util::convert_slice8_to_vec32
convert_slice8_to_vec32(v) == PackChunks(v)

RECURSIVE convert_slice32_to_vec8(_)
\* util::convert_slice32_to_vec8
convert_slice32_to_vec8(v) ==
    IF v = <<>> THEN <<>>
    ELSE to_le_bytes(Head(v)) \o convert_slice32_to_vec8(Tail(v))

FileBytes == {0, 1, 127, 255}
ByteVectors == UNION {[1 .. n -> FileBytes] : n \in 0 .. MaxBytes}

InitPack ==
    /\ NoMachine /\ NoDevice /\ NoAssembler
    /\ v8 \in ByteVectors
    /\ v32 = <<>>
    /\ unpacked = <<>>
    /\ assembled = <<>>
    /\ byte = <<>>
    /\ decoded = <<>>

\* The image file is packed for BearVM::new.
Pack ==
    /\ v32 = <<>>
    /\ v32' = <<convert_slice8_to_vec32(v8)>>
    /\ UNCHANGED <<v8, unpacked, assembled, byte, decoded>>
    /\ UNCHANGED <<machine_vars, device_vars, assembler_vars>>

\* The words are unpacked again, as dump() does with the image.
Unpack ==
    /\ v32 # <<>>
    /\ unpacked = <<>>
    /\ unpacked' = <<convert_slice32_to_vec8(v32[1])>>
    /\ UNCHANGED <<v8, v32, assembled, byte, decoded>>
    /\ UNCHANGED <<machine_vars, device_vars, assembler_vars>>

NextPack == Pack \/ Unpack

PackSpec == InitPack /\ [][NextPack]_vars

\* Byte k (from 0) of the vector, 0 beyond its end.
ByteOrZero(v, k) == IF k < Len(v) THEN v[k + 1] ELSE 0

\* C22: packing a byte vector V of any length and unpacking the words gives
\* V followed by the fewest zero bytes that bring its length to a multiple
\* of 4, and word i of the packed image is bytes 4i .. 4i + 3 of V read
\* little-endian.
C22_PackThenUnpackPads ==
    /\ v32 # <<>>
       => /\ Len(v32[1]) = (Len(v8) + SIZE - 1) \div SIZE
          /\ \A i \in 0 .. (Len(v32[1]) - 1) :
                v32[1][i + 1] = [lo |-> ByteOrZero(v8, 4 * i) + 256 * ByteOrZero(v8, 4 * i + 1),
                                 hi |-> ByteOrZero(v8, 4 * i + 2) + 256 * ByteOrZero(v8, 4 * i + 3)]
    /\ unpacked # <<>>
       => /\ Len(unpacked[1]) % SIZE = 0
          /\ Len(unpacked[1]) - Len(v8) \in 0 .. (SIZE - 1)
          /\ \A k \in 0 .. (Len(unpacked[1]) - 1) : unpacked[1][k + 1] = ByteOrZero(v8, k)
\* C22 happens: five bytes came back as the five bytes and three zero bytes.
C22_FiveBytesPadded ==
    /\ v8 = <<1, 255, 127, 255, 1>>
    /\ v32 = <<(<<[hi |-> 65407, lo |-> 65281], U32(1)>>)>>
    /\ unpacked = <<(<<1, 255, 127, 255, 1, 0, 0, 0>>)>>


\* ---------------------------------------------------------------------------
\* The assembler (bear-ass): parser::ast, Processor and Assembler.

MaxLines == 3

WORD_SIZE == 4

\* ast::Expression::Primitive(Primitive(n))
Primitive(n) == [tag |-> "Primitive", value |-> n]

\* ast::LineBody and what it holds, as one record shape:
\*   Data(D(size, expr)), Data(Str(string, text)), Simple(op),
\*   Directive(At(expr)), Directive(AlignTo(expr)),
\*   Directive(DefineList(name, list)), DefinitionRef(name).
LineBody(tag, op, size, string, expr, text, name, list) ==
    [tag |-> tag, op |-> op, size |-> size, string |-> string, expr |-> expr,
     text |-> text, name |-> name, list |-> list]

D(size, expr) == LineBody("D", "", size, "", expr, <<>>, "", <<>>)
Str(string, text) == LineBody("Str", "", "", string, Primitive(0), text, "", <<>>)
Simple(op) == LineBody("Simple", op, "", "", Primitive(0), <<>>, "", <<>>)
At(expr) == LineBody("At", "", "", "", expr, <<>>, "", <<>>)
AlignTo(expr) == LineBody("AlignTo", "", "", "", expr, <<>>, "", <<>>)
DefineList(name, list) == LineBody("DefineList", "", "", "", Primitive(0), <<>>, name, list)
DefinitionRef(name) == LineBody("DefinitionRef", "", "", "", Primitive(0), <<>>, name, <<>>)

\* ast::Line (the line number is left out: only make_debug reads it)
AstLine(mark, line_labels, body) == [mark |-> mark, labels |-> line_labels, body |-> body]

\* processor::ProcessedLine::new
ProcessedLine(body, line_address) == [body |-> body, address |-> line_address]

\* ast::Size::size_in_bytes
size_in_bytes(size) ==
    CASE size = "S8" -> 1
      [] size = "S16" -> 2
      [] size = "S32" -> 4

\* ast::Data::size_in_bytes
data_size_in_bytes(body) ==
    CASE body.tag = "D" -> size_in_bytes(body.size)
      [] body.tag = "Str" /\ body.string = "R" -> Len(body.text)
      [] body.tag = "Str" /\ body.string = "C" -> Len(body.text) + 1
      [] body.tag = "Str" /\ body.string = "S" -> Len(body.text) + 4

\* i64::abs
abs(x) == IF x < 0 THEN 0 - x ELSE x

\* ast::Primitive::min_bytes, for the values below 2^31 the model draws
min_bytes(p) ==
    IF abs(p) <= 255 THEN 1
    ELSE IF abs(p) <= 65535 THEN 2
    ELSE 4

\* `self.0 as i8` / `as u8`, `as i16` / `as u16`, `as i32` / `as u32` and
\* to_le_bytes: the low n bytes of the two's complement of p.
RECURSIVE LowBytes(_, _)
LowBytes(p, n) == IF n = 0 THEN <<>> ELSE <<p % 256>> \o LowBytes(p \div 256, n - 1)

\* ast::Primitive::assemble_8, as the byte ImageBuilder::assemble_u8 pushes
assemble_8(p) == IF min_bytes(p) <= 1 THEN Some(LowBytes(p, 1)) ELSE None

\* ast::Primitive::assemble_16, as the bytes ImageBuilder::assemble_u16 pushes
assemble_16(p) == IF min_bytes(p) <= 2 THEN Some(LowBytes(p, 2)) ELSE None

\* ast::Primitive::assemble_32, as the bytes ImageBuilder::assemble_u32 pushes
assemble_32(p) == Some(LowBytes(p, 4))

\* ast::Expression::as_primitive
as_primitive(expr) == IF expr.tag = "Primitive" THEN Some(expr.value) ELSE None

\* ast::Expression::Address(Address::Here / Next / Prev), named by `kind`
Address(kind) == [tag |-> kind, value |-> 0]

\* ast::Expression::ForwardMarkRef(position)
ForwardMarkRef(at) == [tag |-> "ForwardMarkRef", value |-> at]

\* The fields of Processor that pass 1 changes.
Processor(at, mark_list, label_map, definition_map) ==
    [position |-> at, marks |-> mark_list, labels |-> label_map,
     definitions |-> definition_map]

\* slice::binary_search on a sorted vector, with indices from 1: Ok(index)
\* where an element equals x, else Err(index) of the place x would take.
binary_search(v, x) ==
    IF \E i \in 1 .. Len(v) : v[i] = x
    THEN [found |-> TRUE, index |-> CHOOSE i \in 1 .. Len(v) : v[i] = x]
    ELSE [found |-> FALSE, index |-> Cardinality({i \in 1 .. Len(v) : v[i] < x}) + 1]

\* Processor::resolve_prev: Some(address), or None for PreviousMarkNotSet
resolve_prev(p) ==
    IF binary_search(p.marks, p.position).found
    THEN Some(p.marks[binary_search(p.marks, p.position).index])
    ELSE IF binary_search(p.marks, p.position).index = 1
    THEN None
    ELSE Some(p.marks[binary_search(p.marks, p.position).index - 1])

\* Processor::resolve_next
resolve_next(p, at) ==
    IF binary_search(p.marks, at).found
    THEN Some(p.marks[binary_search(p.marks, at).index])
    ELSE IF binary_search(p.marks, at).index <= Len(p.marks)
    THEN Some(p.marks[binary_search(p.marks, at).index])
    ELSE None

\* Result<ast::Expression, ErrorTag>
Simplified(expr) == [ok |-> TRUE, error |-> "", expr |-> expr]
NotSimplified(tag, expr) == [ok |-> FALSE, error |-> tag, expr |-> expr]

\* Processor::simplify_expression, for primitives, the three addresses of
\* marks and the forward reference to a mark
simplify_expression(p, expr, here) ==
    CASE expr.tag = "Here" -> Simplified(Primitive(here))
      [] expr.tag = "Prev" ->
            IF resolve_prev(p) = None
            THEN NotSimplified("PreviousMarkNotSet", expr)
            ELSE Simplified(Primitive(resolve_prev(p)[1]))
      [] expr.tag = "Next" ->
            IF resolve_next(p, here) = None
            THEN Simplified(ForwardMarkRef(here))
            ELSE Simplified(Primitive(resolve_next(p, here)[1]))
      [] expr.tag = "ForwardMarkRef" ->
            IF resolve_next(p, expr.value) = None
            THEN NotSimplified("ExpressionCannotBeSimplified", expr)
            ELSE Simplified(Primitive(resolve_next(p, expr.value)[1]))
      [] OTHER -> Simplified(expr)

\* Result<Vec<ProcessedLine>, ErrorTag>, with the Processor the call left.
Processed(p, new_lines) == [ok |-> TRUE, error |-> "", p |-> p, lines |-> new_lines]
Err(p, tag) == [ok |-> FALSE, error |-> tag, p |-> p, lines |-> <<>>]

\* `lines.extend(...?)`: the lines of `next` follow those of `done`, and an
\* error of `next` is returned with the lines dropped.
Then(done, next) ==
    IF next.ok THEN Processed(next.p, done.lines \o next.lines) ELSE next

align_to_the_boundary_below(at, boundary) == at - (at % boundary)

\* Processor::align_to: the position it leaves
align_to(at, boundary) ==
    IF boundary - (at % boundary) # boundary
    THEN at + (boundary - (at % boundary))
    ELSE at

\* Processor::process_data for the line placed at line_address
DataAt(p, datum, line_address) ==
    IF datum.tag # "D"
    THEN Processed(p, <<ProcessedLine(datum, line_address)>>)
    ELSE IF ~simplify_expression(p, datum.expr, p.position).ok
    THEN Err(p, simplify_expression(p, datum.expr, p.position).error)
    ELSE IF /\ as_primitive(simplify_expression(p, datum.expr, p.position).expr) # None
            /\ size_in_bytes(datum.size)
                 < min_bytes(simplify_expression(p, datum.expr, p.position).expr.value)
    THEN Err(p, "DataSizeMismatch")
    ELSE Processed(p, <<ProcessedLine(D(datum.size,
                                        simplify_expression(p, datum.expr, p.position).expr),
                                      line_address)>>)

process_data(p, datum, line_address) ==
    DataAt([p EXCEPT !.position = @ + data_size_in_bytes(datum)], datum, line_address)

\* Processor::process_directive
process_directive(p, dir) ==
    CASE dir.tag = "At" ->
            IF p.position < dir.expr.value
            THEN Processed([p EXCEPT !.position = dir.expr.value], <<>>)
            ELSE Err(p, "CannotAtToBeforeCurrentPosition")
      [] dir.tag = "AlignTo" ->
            Processed([p EXCEPT !.position = align_to(@, dir.expr.value)], <<>>)
      [] dir.tag = "DefineList" ->
            IF \E d \in p.definitions : d.name = dir.name
            THEN Err(p, "DefinitionAlreadyDefined")
            ELSE Processed([p EXCEPT !.definitions = @ \cup {[name |-> dir.name, list |-> dir.list]}],
                           <<>>)

\* Processor::expect_definition_list
expect_definition_list(p, name) ==
    IF \E d \in p.definitions : d.name = name
    THEN Some((CHOOSE d \in p.definitions : d.name = name).list)
    ELSE None

\* Processor::process_line_body; ExpandList is its loop over a macro's list,
\* `done` being the result so far.
RECURSIVE process_line_body(_, _)
RECURSIVE ExpandList(_, _)
ExpandList(done, list) ==
    IF list = <<>> \/ ~done.ok THEN done
    ELSE ExpandList(Then(done, process_line_body(done.p, Head(list))), Tail(list))

process_line_body(p, body) ==
    CASE body.tag = "Str" ->
            process_data([p EXCEPT !.position = align_to(@, WORD_SIZE)], body,
                         align_to(p.position, WORD_SIZE))
      [] body.tag = "D" -> process_data(p, body, p.position)
      [] body.tag \in {"At", "AlignTo", "DefineList"} -> process_directive(p, body)
      [] body.tag = "Simple" ->
            Processed([p EXCEPT !.position = @ + 1], <<ProcessedLine(body, p.position)>>)
      [] body.tag = "DefinitionRef" ->
            IF expect_definition_list(p, body.name) = None
            THEN Err(p, "UnknownDefinition")
            ELSE ExpandList(Processed(p, <<>>), expect_definition_list(p, body.name)[1])

\* The address process_line gives to the mark and the labels of a line.
LabelPosition(done) ==
    IF Len(done.lines) = 0 THEN done.p.position ELSE done.lines[1].address

\* Processor::add_mark
add_mark(p, at) == [p EXCEPT !.marks = Append(@, at)]

\* The loop of process_line over the labels of a line.
RECURSIVE InsertLabels(_, _, _)
InsertLabels(done, names, at) ==
    IF names = <<>> THEN done
    ELSE IF \E l \in done.p.labels : l.name = Head(names)
    THEN Err(done.p, "LabelAlreadyDefined")
    ELSE InsertLabels([done EXCEPT !.p.labels = @ \cup {[name |-> Head(names), address |-> at]}],
                      Tail(names), at)

\* The second half of process_line: the mark and the labels are bound to `at`.
BindLabels(done, line, at) ==
    IF ~done.ok THEN done
    ELSE IF line.mark
    THEN InsertLabels([done EXCEPT !.p = add_mark(@, at)], line.labels, at)
    ELSE InsertLabels(done, line.labels, at)

process_line_binding_the_position_after(p, line) ==
    BindLabels(process_line_body(p, line.body), line,
               process_line_body(p, line.body).p.position)

\* Processor::process_line
process_line(p, line) ==
    BindLabels(process_line_body(p, line.body), line,
               LabelPosition(process_line_body(p, line.body)))

\* Processor::fixup: Some(line) or the ErrorTag
fixup(p, line) ==
    IF line.body.tag = "D"
    THEN IF ~simplify_expression(p, line.body.expr, line.address).ok
         THEN [ok |-> FALSE, error |-> simplify_expression(p, line.body.expr, line.address).error,
               line |-> line]
         ELSE IF as_primitive(simplify_expression(p, line.body.expr, line.address).expr) = None
         THEN [ok |-> FALSE, error |-> "ExpressionCannotBeSimplified", line |-> line]
         ELSE IF size_in_bytes(line.body.size)
                  < min_bytes(simplify_expression(p, line.body.expr, line.address).expr.value)
         THEN [ok |-> FALSE, error |-> "DataSizeMismatch", line |-> line]
         ELSE [ok |-> TRUE, error |-> "",
               line |-> ProcessedLine(D(line.body.size,
                                        simplify_expression(p, line.body.expr, line.address).expr),
                                      line.address)]
    ELSE [ok |-> TRUE, error |-> "", line |-> line]

\* The second loop of Processor::process: the lines fixed up and the errors.
RECURSIVE FixupAll(_, _, _, _)
FixupAll(p, todo, fixed, tags) ==
    IF todo = <<>> THEN [processed |-> fixed, errors |-> tags]
    ELSE IF fixup(p, Head(todo)).ok
    THEN FixupAll(p, Tail(todo), Append(fixed, fixup(p, Head(todo)).line), tags)
    ELSE FixupAll(p, Tail(todo), fixed, Append(tags, fixup(p, Head(todo)).error))

\* Assembler::assemble_data: Some(bytes), or None where it panics or fails
assemble_data(datum) ==
    CASE datum.tag = "D" /\ as_primitive(datum.expr) = None -> None
      [] datum.tag = "D" /\ as_primitive(datum.expr) # None /\ datum.size = "S8" ->
            assemble_8(datum.expr.value)
      [] datum.tag = "D" /\ as_primitive(datum.expr) # None /\ datum.size = "S16" ->
            assemble_16(datum.expr.value)
      [] datum.tag = "D" /\ as_primitive(datum.expr) # None /\ datum.size = "S32" ->
            assemble_32(datum.expr.value)
      [] datum.tag = "Str" /\ datum.string = "R" -> Some(datum.text)
      [] datum.tag = "Str" /\ datum.string = "C" -> Some(datum.text \o <<0>>)
      [] datum.tag = "Str" /\ datum.string = "S" ->
            Some(LowBytes(Len(datum.text), 4) \o datum.text)

\* bin.bits.resize(n, 0) of a shorter vector
RECURSIVE Zeros(_)
Zeros(n) == IF n <= 0 THEN <<>> ELSE <<0>> \o Zeros(n - 1)

Padded_not_at_all(bin) == bin

\* "The output is padded to a multiple of 4."
Padded(bin) == bin \o Zeros((4 - (Len(bin) % 4)) % 4)

\* The bytes one processed line puts into the image: Some(bytes) or None.
LineBytes(line) ==
    CASE line.body.tag \in {"D", "Str"} -> assemble_data(line.body)
      [] line.body.tag = "Simple" -> Some(<<into_u8(line.body.op)>>)
      [] OTHER -> None

\* The loop of Assembler::assemble over p.processed, `bin` being bin.bits.
RECURSIVE AssembleLines(_, _)
AssembleLines(todo, bin) ==
    IF todo = <<>> THEN [kind |-> "Ok", bits |-> Padded(bin)]
    ELSE IF Len(bin) > Head(todo).address
    THEN [kind |-> "panic", bits |-> bin]
    ELSE IF LineBytes(Head(todo)) = None
    THEN [kind |-> "panic", bits |-> bin]
    ELSE AssembleLines(Tail(todo),
                       bin \o Zeros(Head(todo).address - Len(bin)) \o LineBytes(Head(todo))[1])

\* Assembler::assemble
assemble(todo) == AssembleLines(todo, <<>>)

\* The lines the programs are drawn from: opcodes, sized data that fit and
\* that do not, data given by `$>`, `<$` and `@`, the three kinds of string,
\* directives, a macro and its use, marks and labels.
LinePool ==
    { AstLine(FALSE, <<>>, Simple("Nop")),
      AstLine(FALSE, <<"x">>, Simple("Halt")),
      AstLine(FALSE, <<"v", "v">>, Simple("Nop")),
      AstLine(FALSE, <<>>, D("S8", Primitive(-3))),
      AstLine(FALSE, <<>>, D("S8", Primitive(-200))),
      AstLine(FALSE, <<>>, D("S8", Primitive(256))),
      AstLine(FALSE, <<>>, D("S16", Primitive(-2))),
      AstLine(FALSE, <<>>, D("S16", Primitive(-40000))),
      AstLine(TRUE, <<"y">>, D("S32", Primitive(-3))),
      AstLine(FALSE, <<>>, D("S32", Address("Next"))),
      AstLine(TRUE, <<>>, D("S32", Address("Next"))),
      AstLine(FALSE, <<>>, D("S8", Address("Prev"))),
      AstLine(FALSE, <<>>, D("S8", Address("Here"))),
      AstLine(TRUE, <<>>, Str("R", <<>>)),
      AstLine(FALSE, <<"x">>, Str("R", <<97>>)),
      AstLine(FALSE, <<>>, Str("C", <<97, 98>>)),
      AstLine(FALSE, <<"z">>, Str("S", <<97, 98, 99>>)),
      AstLine(FALSE, <<>>, At(Primitive(2))),
      AstLine(FALSE, <<>>, AlignTo(Primitive(4))),
      AstLine(FALSE, <<>>, DefineList("m", <<Simple("Nop"), D("S16", Primitive(513))>>)),
      AstLine(FALSE, <<"w">>, DefinitionRef("m")) }

Programs == UNION {[1 .. n -> LinePool] : n \in 0 .. MaxLines}

InitAssembler ==
    /\ NoMachine /\ NoDevice /\ NoCodec
    /\ program \in Programs
    /\ original = program
    /\ position = 0
    /\ marks = <<>>
    /\ labels = {}
    /\ definitions = {}
    /\ lines = <<>>
    /\ processed = <<>>
    /\ errors = <<>>
    /\ bits = <<>>
    /\ phase = "pass1"
    /\ line_before = <<>>
    /\ returned = <<>>

\* One turn of the first loop of Processor::process.
ProcessLine ==
    /\ phase = "pass1"
    /\ program # <<>>
    /\ \E done \in {process_line(Processor(position, marks, labels, definitions), Head(program))} :
          /\ position' = done.p.position
          /\ marks' = done.p.marks
          /\ labels' = done.p.labels
          /\ definitions' = done.p.definitions
          /\ lines' = IF done.ok THEN lines \o done.lines ELSE lines
          /\ errors' = IF done.ok THEN errors ELSE Append(errors, done.error)
          /\ line_before' = <<[line |-> Head(program), position |-> position,
                               labels |-> labels, ok |-> done.ok, error |-> done.error,
                               lines |-> done.lines]>>
    /\ program' = Tail(program)
    /\ UNCHANGED <<processed, bits, phase, original, returned>>
    /\ UNCHANGED <<machine_vars, device_vars, codec_vars>>

\* The rest of Processor::process: the check of is_error, the second loop
\* and the result.
Fixup ==
    /\ phase = "pass1"
    /\ program = <<>>
    /\ IF errors # <<>>
       THEN /\ returned' = <<(<<"Unknown">>)>>
            /\ phase' = "failed"
            /\ UNCHANGED <<processed, errors>>
       ELSE \E fixed \in {FixupAll(Processor(position, marks, labels, definitions),
                                   lines, <<>>, <<>>)} :
               /\ processed' = fixed.processed
               /\ errors' = fixed.errors
               /\ returned' = IF fixed.errors # <<>> THEN <<fixed.errors>> ELSE <<>>
               /\ phase' = IF fixed.errors # <<>> THEN "failed" ELSE "processed"
    /\ UNCHANGED <<program, position, marks, labels, definitions, lines, bits,
                   line_before, original>>
    /\ UNCHANGED <<machine_vars, device_vars, codec_vars>>

\* Assembler::assemble on the Processor that process returned.
Assemble ==
    /\ phase = "processed"
    /\ \E out \in {assemble(processed)} :
          /\ bits' = <<out.bits>>
          /\ phase' = IF out.kind = "Ok" THEN "assembled" ELSE "panic"
    /\ UNCHANGED <<program, position, marks, labels, definitions, lines, processed,
                   errors, line_before, original, returned>>
    /\ UNCHANGED <<machine_vars, device_vars, codec_vars>>

NextAssembler == ProcessLine \/ Fixup \/ Assemble

AssemblerSpec == InitAssembler /\ [][NextAssembler]_vars

\* The number of bytes a processed line puts into the image.
BodySize(body) == IF body.tag = "Simple" THEN 1 ELSE data_size_in_bytes(body)

\* The address after the last byte of the last processed line.
EndOfLines(todo) ==
    IF todo = <<>> THEN 0 ELSE todo[Len(todo)].address + BodySize(todo[Len(todo)].body)

\* C23: for every successfully processed program the image that
\* Assembler::assemble returns has a length that is a multiple of 4, and the
\* bytes added after the last processed line are all zero.
C23_ImageIsWordPadded ==
    phase = "assembled"
    => /\ Len(bits[1]) % 4 = 0
       /\ Len(bits[1]) - EndOfLines(processed) \in 0 .. 3
       /\ \A k \in (EndOfLines(processed) + 1) .. Len(bits[1]) : bits[1][k] = 0
\* C23 happens: an opcode and a 16-bit datum were padded with one zero byte.
C23_ThreeBytesPadded ==
    /\ phase = "assembled"
    /\ original = <<AstLine(FALSE, <<>>, Simple("Nop")),
                    AstLine(FALSE, <<>>, D("S16", Primitive(-2)))>>
    /\ bits = <<(<<0, 254, 255, 0>>)>>

\* C24: for every pair of consecutive entries of the processed-line list that
\* Processor::process produces, address < address of the next line and
\* address + size_in_bytes(body) <= address of the next line, for every
\* program (an empty raw string and the lines of a macro included), and so
\* the assembler's "stream malformed" check never fires.
C24_LinesAreStrictlyOrdered ==
    /\ phase \in {"processed", "assembled", "panic"}
       => \A i \in 1 .. (Len(processed) - 1) :
             /\ processed[i].address < processed[i + 1].address
             /\ processed[i].address + BodySize(processed[i].body) <= processed[i + 1].address
    /\ phase # "panic"

\* The line pass 1 has just processed, and whether process_line returned Ok.
LineDone == line_before # <<>>
LastLine == line_before[1]

\* The address of the first byte a line emits when it is reached at `at`: a
\* string is aligned first.
FirstByte(line, at) ==
    IF line.body.tag = "Str" THEN ((at + WORD_SIZE - 1) \div WORD_SIZE) * WORD_SIZE ELSE at

\* The program defines a label name twice, on one line or on two.
DuplicateLabel(lines_of_program) ==
    \E i, j \in 1 .. Len(lines_of_program) :
       \E a \in 1 .. Len(lines_of_program[i].labels), b \in 1 .. Len(lines_of_program[j].labels) :
          /\ <<i, a>> # <<j, b>>
          /\ lines_of_program[i].labels[a] = lines_of_program[j].labels[b]

\* C25: after a successful process() every label is bound exactly once, to
\* the address of the first byte emitted by the line that defines it (for a
\* string line, the address after alignment), a binding never changes, and a
\* program that defines the same label name twice makes process() fail.
C25_LabelsAreBoundOnce ==
    /\ [](/\ \A l, k \in labels : l.name = k.name => l = k
          /\ (LineDone /\ LastLine.ok /\ LastLine.lines # <<>>)
             => \A n \in 1 .. Len(LastLine.line.labels) :
                   [name |-> LastLine.line.labels[n],
                    address |-> FirstByte(LastLine.line, LastLine.position)] \in labels
          /\ phase \in {"processed", "assembled"}
             => /\ ~DuplicateLabel(original)
                /\ \A i \in 1 .. Len(original) : \A n \in 1 .. Len(original[i].labels) :
                      Cardinality({l \in labels : l.name = original[i].labels[n]}) = 1)
    /\ [][\A l \in labels : l \in labels']_vars
\* C25 happens: the label of a raw string reached at position 1 is bound to 4.
C25_LabelOfAlignedString ==
    /\ phase = "processed"
    /\ original = <<AstLine(FALSE, <<>>, Simple("Nop")),
                    AstLine(FALSE, <<"x">>, Str("R", <<97>>))>>
    /\ labels = {[name |-> "x", address |-> 4]}

\* C26: only sized (S) strings are word-aligned: an S string is placed at the
\* current position rounded up to a multiple of 4, whereas raw (R) strings,
\* NUL-terminated (C) strings, sized scalars and opcodes are placed exactly
\* at the current position, with no padding before them.
C26_OnlySizedStringsAreAligned ==
    (/\ LineDone
     /\ LastLine.ok
     /\ LastLine.line.body.tag \in {"Str", "D", "Simple"})
    => LastLine.lines[1].address =
          IF LastLine.line.body.tag = "Str" /\ LastLine.line.body.string = "S"
          THEN ((LastLine.position + 3) \div 4) * 4
          ELSE LastLine.position

\* C27: the directive At(a) succeeds for every a >= the current position (a
\* equal to it included), sets position to a and emits no line; it fails with
\* CannotAtToBeforeCurrentPosition exactly when a < the current position, and
\* then leaves position unchanged.
C27_AtAcceptsTheCurrentPosition ==
    (LineDone /\ LastLine.line.body.tag = "At")
    => IF LastLine.line.body.expr.value >= LastLine.position
       THEN /\ LastLine.ok
            /\ position = LastLine.line.body.expr.value
            /\ LastLine.lines = <<>>
       ELSE /\ ~LastLine.ok
            /\ LastLine.error = "CannotAtToBeforeCurrentPosition"
            /\ position = LastLine.position

\* The value fits n bytes: unsigned when it is not negative, two's
\* complement when it is.
Representable(value, n) ==
    CASE n = 1 -> value \in -128 .. 255
      [] n = 2 -> value \in -32768 .. 65535
      [] n = 4 -> TRUE

\* Byte k (from 0) of the value: of the unsigned value, or of the two's
\* complement, which is the complement of the bytes of -value - 1.
RECURSIVE Pow256(_)
Pow256(k) == IF k = 0 THEN 1 ELSE 256 * Pow256(k - 1)
ByteOfValue(value, k) ==
    IF value >= 0 THEN (value \div Pow256(k)) % 256
    ELSE 255 - (((0 - value - 1) \div Pow256(k)) % 256)

\* C28: the 1, 2 or 4 little-endian bytes emitted for a sized datum
\* D(size, expr) represent the exact value of expr, unsigned when it is not
\* negative and two's complement of the declared width when it is; a value
\* the declared width cannot represent (-200 or 256 for d8, -40000 for d16)
\* is rejected with DataSizeMismatch instead of being truncated.
C28_DataAreExactOrRejected ==
    /\ phase = "assembled"
       => \A i \in 1 .. Len(processed) :
             processed[i].body.tag = "D"
             => /\ Representable(processed[i].body.expr.value,
                                 size_in_bytes(processed[i].body.size))
                /\ \A k \in 0 .. (size_in_bytes(processed[i].body.size) - 1) :
                      bits[1][processed[i].address + k + 1] =
                         ByteOfValue(processed[i].body.expr.value, k)
    /\ (/\ LineDone
        /\ LastLine.line.body.tag = "D"
        /\ ~Representable(LastLine.line.body.expr.value,
                          size_in_bytes(LastLine.line.body.size)))
       => /\ ~LastLine.ok
          /\ LastLine.error = "DataSizeMismatch"

Command == decode(message[1])

\* The bytes b[k + 1 ..] of a stream of which k were asked for.
Remaining(b, k) == SubSeq(b, (IF k < Len(b) THEN k ELSE Len(b)) + 1, Len(b))

\* C32: for a stdin device over the input bytes b1..bn the k-th Exec-Read
\* returns bk zero-extended (k <= n), each byte is returned once and in
\* order, and every Read after the n-th returns 0xFFFFFFFF; Exec-Write,
\* Exec-Seek and unknown Exec sub-commands return 0xFFFFFFFF and consume no
\* input.  A stdout device appends the low byte of each Exec-Write argument
\* to its output, in order, and rejects Read and Seek with 0xFFFFFFFF.
C32_StreamsInOrder ==
    /\ (device.kind = "stdin" /\ device.state = ReadyForCommand)
       => /\ \A k \in 1 .. Len(reads) :
                reads[k] = IF k <= Len(handle) THEN U32(handle[k]) ELSE u32_MAX
          /\ device.input = Remaining(handle, Len(reads))
          /\ (Called /\ Command.tag = "Execute" /\ Command.a # StreamCommand.Read)
             => /\ answer = <<u32_MAX>>
                /\ device.input = device_before[1].input
    /\ (device.kind = "stdout" /\ device.state = ReadyForCommand /\ Called
           /\ Command.tag = "Execute")
       => IF Command.a = StreamCommand.Write
          THEN /\ device.output = Append(device_before[1].output, message[1].lo % 256)
               /\ answer = <<Zero>>
          ELSE /\ device.output = device_before[1].output
               /\ answer = <<u32_MAX>>
\* C32 happens: three Reads of the input 65, 0 returned 65, 0 and 0xFFFFFFFF.
C32_ThirdReadPastTheEnd ==
    /\ device.kind = "stdin"
    /\ device.state = ReadyForCommand
    /\ handle = <<65, 0>>
    /\ reads = <<U32(65), Zero, u32_MAX>>
    /\ device.input = <<>>

(***************************************************************************)
(* The machine again: the advance after a step, the ways a step ends, and  *)
(* the cached word.                                                        *)
(***************************************************************************)
\* The literal cursor as the opcode of the step left it: lit moves it on.
PrevCursor == Prev.current_word_index + (IF PrevOp = OpCode.Lit THEN 1 ELSE 0)

\* C33: after an opcode at instruction_index 3 has executed (neither halt nor
\* a taken control transfer) current_word_index is one more,
\* loaded_word_index equals it, instruction_index is 0 and the cached word is
\* the image word there; at indices 0..2 only instruction_index is
\* incremented.  So a word with k lit opcodes is followed by the word k + 1
\* positions after it, and its literals are not decoded.
C33_AdvanceAfterStep ==
    (/\ Stepped
     /\ result.kind = "none"
     /\ PrevOp # OpCode.Halt
     /\ ~PrevTransfers
     /\ ~PrevReturns)
    => IF Prev.instruction_index = SIZE - 1
       THEN /\ current_word_index = PrevCursor + 1
            /\ loaded_word_index = current_word_index
            /\ instruction_index = 0
            /\ word = to_le_bytes(image[loaded_word_index + 1])
       ELSE /\ instruction_index = Prev.instruction_index + 1
            /\ current_word_index = PrevCursor
            /\ loaded_word_index = Prev.loaded_word_index
            /\ word = Prev.word
\* C33 happens: after byte 3 of a word with two lit opcodes the machine went
\* on with the third word after it.
C33_SkippedTwoLiterals ==
    /\ Stepped
    /\ result.kind = "none"
    /\ PrevOp = OpCode.ReturnIfZ
    /\ ~PrevReturns
    /\ Prev.instruction_index = SIZE - 1
    /\ Prev.loaded_word_index = 0
    /\ Prev.current_word_index = 2
    /\ loaded_word_index = 3
    /\ current_word_index = 3
    /\ instruction_index = 0

\* C34: for every image and every reachable state step() either completes or
\* returns one of the runtime errors (data underflow, address underflow, ip
\* out of bounds, invalid opcode, overflow in a cell conversion); no
\* instruction ends the run in another way, be it div or mod by zero, a shift
\* by 32 or more, a lit in the last word, a load or store beyond the image, a
\* call from a word index of 2^15 or more, or io with an unknown device id.
C34_StepsEndInListedErrors ==
    Stepped
    => \/ result.kind \in {"none", "ok"}
       \/ /\ result.kind = "error"
          /\ result.message \in {"Data stack underflow.", "Address stack underflow.",
                                 "IP went out of bounds.", "Invalid opcode",
                                 "Arithmetic error"}

\* ---------------------------------------------------------------------------
\* C35: `$>` is the smallest mark at or after the line.

\* Every line of the program emits exactly one processed line.
OneLineEach(lines_of_program) ==
    \A i \in 1 .. Len(lines_of_program) : lines_of_program[i].body.tag \in {"D", "Str", "Simple"}

\* The first loop of Processor::process met no error and the second one ran.
PassTwoRan ==
    /\ phase \in {"processed", "failed", "assembled", "panic"}
    /\ phase = "failed" => returned[1] # <<"Unknown">>

\* The marks of the whole program at or after an address, and below it.
MarksFrom(at) == {marks[i] : i \in {j \in 1 .. Len(marks) : marks[j] >= at}}
MarksBelow(at) == {marks[i] : i \in {j \in 1 .. Len(marks) : marks[j] < at}}
Smallest(S) == CHOOSE m \in S : \A n \in S : m <= n
Largest(S) == CHOOSE m \in S : \A n \in S : m >= n

IsData(line, expr) == line.body.tag = "D" /\ line.body.expr = expr

\* C35: once pass 2 has run, a datum `$>` placed at address P holds the
\* smallest mark of the program that is >= P, the mark of its own line
\* included; process() fails with ExpressionCannotBeSimplified exactly when
\* some `$>` has no such mark.
C35_NextIsTheSmallestMarkFromTheLine ==
    (PassTwoRan /\ OneLineEach(original))
    => /\ \A i \in 1 .. Len(original) :
             IsData(original[i], Address("Next"))
             => IF MarksFrom(lines[i].address) = {}
                THEN phase = "failed"
                ELSE phase # "failed"
                     => processed[i].body.expr
                          = Primitive(Smallest(MarksFrom(lines[i].address)))
       /\ (phase = "failed" /\ \E k \in 1 .. Len(errors) : errors[k] = "ExpressionCannotBeSimplified")
          => \E i \in 1 .. Len(original) :
                /\ IsData(original[i], Address("Next"))
                /\ MarksFrom(lines[i].address) = {}

\* ---------------------------------------------------------------------------
\* C36: `<$` is the largest mark strictly below the line.

\* C36: a datum `<$` placed at address P in pass 1 holds the largest mark
\* strictly less than P, and the line fails with PreviousMarkNotSet when no
\* mark lies strictly below P.
C36_PrevIsTheLargestMarkBelowTheLine ==
    (LineDone /\ IsData(LastLine.line, Address("Prev")))
    => IF MarksBelow(LastLine.position) = {}
       THEN ~LastLine.ok /\ LastLine.error = "PreviousMarkNotSet"
       ELSE /\ LastLine.ok
            /\ LastLine.lines[1].address = LastLine.position
            /\ LastLine.lines[1].body.expr
                 = Primitive(Largest(MarksBelow(LastLine.position)))

\* ---------------------------------------------------------------------------
\* C37: `@` is the address of the datum that holds it.

\* C37: a datum `@` is emitted with the address the datum itself is placed
\* at, after pass 1 and after pass 2 alike.
C37_HereIsTheAddressOfTheDatum ==
    /\ (LineDone /\ IsData(LastLine.line, Address("Here")) /\ LastLine.ok)
       => LastLine.lines[1].body.expr = Primitive(LastLine.lines[1].address)
    /\ (PassTwoRan /\ phase # "failed" /\ OneLineEach(original))
       => \A i \in 1 .. Len(original) :
             IsData(original[i], Address("Here"))
             => processed[i].body.expr = Primitive(processed[i].address)

\* ---------------------------------------------------------------------------
\* C38: what Processor::process returns.

\* C38: pass 1 ends only when every line has been gone through, whatever
\* failed before.  When it ends with errors, pass 2 is not run and process()
\* returns the errors collected; otherwise process() fails exactly when a
\* fix-up failed, and then returns the errors of the fix-ups.
C38_ProcessReturnsTheErrorsMet ==
    /\ [](phase # "pass1" => program = <<>>)
    /\ [][(phase = "pass1" /\ phase' # "pass1")
          => IF errors # <<>>
             THEN /\ phase' = "failed"
                  /\ processed' = <<>>
                  /\ returned' = <<errors>>
             ELSE /\ Len(errors') + Len(processed') = Len(lines)
                  /\ phase' = "failed" <=> errors' # <<>>
                  /\ returned' = IF errors' # <<>> THEN <<errors'>> ELSE <<>>]_vars


\* ---------------------------------------------------------------------------
\* C39: the cached word of the execution state.

\* C39: between steps, while run() goes on, `word` holds the little-endian
\* bytes of image[loaded_word_index], whatever a store or a DMA write has
\* done to that word of the image.
C39_CachedWordIsTheImageWord ==
    (pc \in {"step", "sync"} /\ loaded_word_index < Len(image))
    => word = to_le_bytes(image[loaded_word_index + 1])

\* ---------------------------------------------------------------------------
\* C40: positions, addresses and marks only grow.

NonDecreasing(f) == \A i \in 1 .. Len(f) : \A j \in i .. Len(f) : f[i] <= f[j]

Addresses(f) == [i \in 1 .. Len(f) |-> f[i].address]

\* C40: in every state of pass 1 and after it the marks are in non-decreasing
\* order and so are the addresses of the processed lines, in the order they
\* were emitted; no step lowers the position.
C40_PositionsAndMarksOnlyGrow ==
    /\ [](NonDecreasing(marks) /\ NonDecreasing(Addresses(lines))
           /\ \A i \in 1 .. Len(marks) : marks[i] <= position)
    /\ [][position' >= position]_vars

\* Three lines and two marks at different addresses have been emitted.
C40_TwoMarksThreeLines ==
    /\ phase = "pass1"
    /\ program = <<>>
    /\ Len(lines) = 3
    /\ Len(marks) = 2
    /\ marks[1] < marks[2]
    /\ lines[1].address < lines[3].address
=============================================================================
